---- MODULE Spec2Model ----
(***************************************************************************)
(* Model of the bifrost package manager: semantic versions and version     *)
(* constraints (internal/version), the dependency resolver and its install *)
(* order (internal/resolver), and the installer / uninstaller working on   *)
(* the three package scopes and the cache (internal/install,               *)
(* internal/uninstall, internal/config).                                   *)
(***************************************************************************)
EXTENDS Integers, Sequences, FiniteSets, TLC

(***************************************************************************)
(* Text.  A Go string is a sequence of one-character strings.              *)
(***************************************************************************)
Digits == <<"0", "1", "2", "3", "4", "5", "6", "7", "8", "9">>

IsDigit(c) == \E i \in DOMAIN Digits : Digits[i] = c

DigitVal(c) == (CHOOSE i \in DOMAIN Digits : Digits[i] = c) - 1

HasPrefix(s, p) == Len(s) >= Len(p) /\ SubSeq(s, 1, Len(p)) = p

Drop(s, n) == SubSeq(s, n + 1, Len(s))

Contains(s, c) == \E i \in DOMAIN s : s[i] = c

RECURSIVE TrimLeft(_)
TrimLeft(s) == IF s # <<>> /\ Head(s) = " " THEN TrimLeft(Tail(s)) ELSE s

RECURSIVE TrimRight(_)
TrimRight(s) ==
    IF s # <<>> /\ s[Len(s)] = " " THEN TrimRight(SubSeq(s, 1, Len(s) - 1)) ELSE s

TrimSpace(s) == TrimRight(TrimLeft(s))

\* strings.Split(s, sep) for a one-character separator
RECURSIVE Split(_, _)
Split(s, sep) ==
    IF ~Contains(s, sep) THEN <<s>>
    ELSE LET i == CHOOSE k \in DOMAIN s :
                      s[k] = sep /\ \A j \in 1..(k - 1) : s[j] # sep
         IN  <<SubSeq(s, 1, i - 1)>> \o Split(Drop(s, i), sep)

\* the largest int: 1<<63 - 1 in the program, scaled down to two decimal digits
MaxInt == 99

\* the number a run of decimal digits denotes
RECURSIVE Decimal(_)
Decimal(ds) ==
    IF ds = <<>> THEN 0
    ELSE 10 * Decimal(SubSeq(ds, 1, Len(ds) - 1)) + DigitVal(ds[Len(ds)])

\* strconv.Atoi on a non-empty run of decimal digits, its error dropped: a value
\* out of range comes back as the largest int
Atoi(ds) == IF Decimal(ds) > MaxInt THEN MaxInt ELSE Decimal(ds)

(***************************************************************************)
(* internal/version: Version                                               *)
(***************************************************************************)
Ver(ma, mi, pa) == [major |-> ma, minor |-> mi, patch |-> pa]

\* a nil *Version
Nil == Ver(-1, -1, -1)

\* the error return of Parse
ParseError == [err |-> TRUE, v |-> Nil]

AllDigits(ds) == ds # <<>> /\ \A i \in DOMAIN ds : IsDigit(ds[i])

\* a Parse whose regular expression takes any one character that is no digit as
\* the prefix
Parse_AnyPrefix(s) ==
    LET body  == IF s # <<>> /\ ~IsDigit(Head(s)) THEN Drop(s, 1) ELSE s
        parts == Split(body, ".")
    IN  IF Len(parts) = 3 /\ \A i \in 1..3 : AllDigits(parts[i])
        THEN [err |-> FALSE,
              v   |-> Ver(Atoi(parts[1]), Atoi(parts[2]), Atoi(parts[3]))]
        ELSE ParseError

\* Parse: the regular expression ^v?(\d+)\.(\d+)\.(\d+)$ and three Atoi calls
Parse(s) ==
    LET body  == IF HasPrefix(s, <<"v">>) THEN Drop(s, 1) ELSE s
        parts == Split(body, ".")
    IN  IF Len(parts) = 3 /\ \A i \in 1..3 : AllDigits(parts[i])
        THEN [err |-> FALSE,
              v   |-> Ver(Atoi(parts[1]), Atoi(parts[2]), Atoi(parts[3]))]
        ELSE ParseError

RECURSIVE Itoa(_)
Itoa(n) == IF n < 10 THEN <<Digits[n + 1]>>
           ELSE Itoa(n \div 10) \o <<Digits[(n % 10) + 1]>>

\* Version.String
VersionString(v) == Itoa(v.major) \o <<".">> \o Itoa(v.minor) \o <<".">> \o Itoa(v.patch)

\* a Compare that looks at the major component only
Compare_MajorOnly(v, other) == v.major - other.major

\* the int an addition or a subtraction of ints yields: it wraps around beyond
\* the largest and the smallest int
Wrap(n) == ((n + MaxInt + 1) % (2 * (MaxInt + 1))) - (MaxInt + 1)

\* Version.Compare
Compare(v, other) ==
    IF v.major # other.major THEN Wrap(v.major - other.major)
    ELSE IF v.minor # other.minor THEN Wrap(v.minor - other.minor)
    ELSE Wrap(v.patch - other.patch)

(***************************************************************************)
(* internal/version: Constraint                                            *)
(***************************************************************************)
ExactConstraint(v) ==
    [kind |-> "exact", version |-> v, min |-> Nil, max |-> Nil,
     minInclusive |-> FALSE, maxInclusive |-> FALSE]

RangeConstraint(mn, mx, mnInc, mxInc) ==
    [kind |-> "range", version |-> Nil, min |-> mn, max |-> mx,
     minInclusive |-> mnInc, maxInclusive |-> mxInc]

\* ExactConstraint.Satisfies and RangeConstraint.Satisfies
Satisfies(c, v) ==
    IF c.kind = "exact" THEN Compare(c.version, v) = 0
    ELSE /\ (c.min # Nil =>
               ~(Compare(v, c.min) < 0 \/ (Compare(v, c.min) = 0 /\ ~c.minInclusive)))
         /\ (c.max # Nil =>
               ~(Compare(v, c.max) > 0 \/ (Compare(v, c.max) = 0 /\ ~c.maxInclusive)))

ConstraintError == [err |-> TRUE, c |-> ExactConstraint(Nil)]

ConstraintOk(c) == [err |-> FALSE, c |-> c]

\* one clause of the comma form: sets a bound of the range, or leaves it alone
ApplyClause(acc, rawPart) ==
    LET part == TrimSpace(rawPart)
        p2   == Parse(Drop(part, 2))
        p1   == Parse(Drop(part, 1))
    IN  IF acc.err THEN acc
        ELSE IF HasPrefix(part, <<">", "=">>)
             THEN IF p2.err THEN ConstraintError
                  ELSE ConstraintOk([acc.c EXCEPT !.min = p2.v, !.minInclusive = TRUE])
        ELSE IF HasPrefix(part, <<">">>)
             THEN IF p1.err THEN ConstraintError
                  ELSE ConstraintOk([acc.c EXCEPT !.min = p1.v, !.minInclusive = FALSE])
        ELSE IF HasPrefix(part, <<"<", "=">>)
             THEN IF p2.err THEN ConstraintError
                  ELSE ConstraintOk([acc.c EXCEPT !.max = p2.v, !.maxInclusive = TRUE])
        ELSE IF HasPrefix(part, <<"<">>)
             THEN IF p1.err THEN ConstraintError
                  ELSE ConstraintOk([acc.c EXCEPT !.max = p1.v, !.maxInclusive = FALSE])
        ELSE acc

\* a caret range that ends where the tilde range does
CaretMax_NextMinor(v) == Ver(v.major, Wrap(v.minor + 1), 0)

\* max of the caret range: the next major version
CaretMax(v) == Ver(Wrap(v.major + 1), 0, 0)

\* a tilde range that ends where the caret range does
TildeMax_NextMajor(v) == Ver(Wrap(v.major + 1), 0, 0)

\* max of the tilde range: the next minor version
TildeMax(v) == Ver(v.major, Wrap(v.minor + 1), 0)

ParseConstraint(raw) ==
    LET s  == TrimSpace(raw)
        p1 == Parse(Drop(s, 1))
        p2 == Parse(Drop(s, 2))
        p0 == Parse(s)
    IN  IF HasPrefix(s, <<"^">>)
        THEN IF p1.err THEN ConstraintError
             ELSE ConstraintOk(RangeConstraint(p1.v, CaretMax(p1.v), TRUE, FALSE))
        ELSE IF HasPrefix(s, <<"~">>)
        THEN IF p1.err THEN ConstraintError
             ELSE ConstraintOk(RangeConstraint(p1.v, TildeMax(p1.v), TRUE, FALSE))
        ELSE IF Contains(s, ",")
        THEN LET parts == Split(s, ",")
             IN  IF Len(parts) # 2 THEN ConstraintError
                 ELSE ApplyClause(
                        ApplyClause(ConstraintOk(RangeConstraint(Nil, Nil, FALSE, FALSE)),
                                    parts[1]),
                        parts[2])
        ELSE IF HasPrefix(s, <<">", "=">>)
        THEN IF p2.err THEN ConstraintError
             ELSE ConstraintOk(RangeConstraint(p2.v, Nil, TRUE, FALSE))
        ELSE IF p0.err THEN ConstraintError
             ELSE ConstraintOk(ExactConstraint(p0.v))


(***************************************************************************)
(* Inputs of the resolver: package names, versions, constraint texts.      *)
(***************************************************************************)
Names == {"A", "B"}

\* names a root manifest may carry: one that the pool may also hold, one it never holds
RootNames == {"A", "R"}

NoName == "-"

Versions == {Ver(1, 2, 0), Ver(2, 0, 0)}

CaretOne == <<"^", "1", ".", "0", ".", "0">>

AtLeastOne == <<">", "=", "1", ".", "0", ".", "0">>

Malformed == <<"^", "1", ".", "0">>

ConstraintTexts == {CaretOne, AtLeastOne}

\* the most packages AddPackage puts into the pool
MaxPool == 3

EmptyMap == [x \in {} |-> Nil]

Range(f) == {f[x] : x \in DOMAIN f}

\* Package.Dependencies of a pool package: no dependency or a single one
DepMaps == {EmptyMap} \cup {n :> ParseConstraint(t).c : n \in Names, t \in ConstraintTexts}

\* resolver.Package
Universe == [name : Names, version : Versions, deps : DepMaps]

\* manifest.Manifest as Resolve reads it: Package.Name and Dependencies (name -> text)
Manifests ==
    [name : RootNames,
     deps : UNION {[S -> ConstraintTexts \cup {Malformed}] : S \in SUBSET Names}]

VARIABLES
    pool,       \* Resolver.packages, as the set of packages added
    rpc,        \* position of the resolver run
    rootPkg,    \* Resolve: rootPkg
    resolved,   \* Resolve: the resolved map (name -> package)
    frames,     \* active calls of resolvePackage, innermost last
    depName,    \* resolvePackage: the dependency examined by the last loop iteration
    result,     \* Resolve: the error returned, "ok", or "none" while running
    resolution, \* Resolve: Resolution.Packages returned
    visited,    \* GetResolutionOrder: visited
    toVisit,    \* GetResolutionOrder: names the final loop has still to start from
    visits,     \* GetResolutionOrder: active calls of visit, innermost last
    order       \* GetResolutionOrder: order

rvars == <<pool, rpc, rootPkg, resolved, frames, depName, result, resolution,
           visited, toVisit, visits, order>>

VARIABLES
    fs,         \* the file system: path -> node
    last,       \* the installer or uninstaller call made last, and what it returned
    nops,       \* the number of calls made
    processed   \* Install: the packages the loop handed to installPackage, in turn

VARIABLES
    mpc,        \* UninstallFromManifest, CleanCache: position of the call
    manifest,   \* UninstallFromManifest: the manifest that manifest.Load returned
    allDeps,    \* UninstallFromManifest: allDeps (name -> recorded version)
    pending     \* UninstallFromManifest, CleanCache: what the loop has still to take

VARIABLES
    input,      \* the arguments a function is called with on its own
    output      \* what that call returned

VARIABLES
    procs       \* the invocations of the tool that run side by side: where each is

xvars == <<input, output, procs>>

mvars == <<mpc, manifest, allDeps, pending, input, output, procs>>

fvars == <<fs, last, nops, processed, mpc, manifest, allDeps, pending, input, output,
           procs>>

vars == <<pool, rpc, rootPkg, resolved, frames, depName, result, resolution,
          visited, toVisit, visits, order, fs, last, nops, processed,
          mpc, manifest, allDeps, pending, input, output, procs>>

NoPackage == [name |-> NoName, version |-> Nil, deps |-> EmptyMap]

ResolverInit ==
    /\ pool = {}
    /\ rpc = "build"
    /\ rootPkg = NoPackage
    /\ resolved = EmptyMap
    /\ frames = <<>>
    /\ depName = NoName
    /\ result = "none"
    /\ resolution = EmptyMap
    /\ visited = {}
    /\ toVisit = {}
    /\ visits = <<>>
    /\ order = <<>>

Top(stk) == stk[Len(stk)]

\* a return that leaves the call on the stack
Pop_Stay(stk) == stk

Pop(stk) == SubSeq(stk, 1, Len(stk) - 1)

\* Resolver.AddPackage
AddPackage(pkg) ==
    /\ rpc = "build"
    /\ pkg \notin pool
    /\ Cardinality(pool) < MaxPool
    /\ pool' = pool \cup {pkg}
    /\ UNCHANGED <<rpc, rootPkg, resolved, frames, depName, result, resolution,
                   visited, toVisit, visits, order>>
    /\ UNCHANGED fvars

\* a call of resolvePackage that passed the stack check
Frame(pkg, stack) ==
    [pkg |-> pkg, todo |-> DOMAIN pkg.deps, stack |-> Append(stack, pkg.name)]

\* Resolve, up to the first call of resolvePackage
Resolve(m) ==
    /\ rpc = "build"
    /\ IF \E n \in DOMAIN m.deps : ParseConstraint(m.deps[n]).err
       THEN /\ result' = "InvalidConstraint"
            /\ rpc' = "resolved"
            /\ UNCHANGED <<rootPkg, frames>>
       ELSE LET root == [name    |-> m.name,
                         version |-> Ver(0, 0, 0),
                         deps    |-> [n \in DOMAIN m.deps |-> ParseConstraint(m.deps[n]).c]]
            IN  /\ rootPkg' = root
                /\ frames' = <<Frame(root, <<>>)>>
                /\ rpc' = "resolving"
                /\ UNCHANGED result
    /\ UNCHANGED <<pool, resolved, depName, resolution, visited, toVisit, visits, order>>
    /\ UNCHANGED fvars

\* resolvePackage returns an error, which every caller up to Resolve returns
Fail(kind) ==
    /\ result' = kind
    /\ rpc' = "resolved"
    /\ frames' = <<>>
    /\ resolution' = EmptyMap

\* a resolver without the check of the recursion stack
OnStack_Never(name, stack) == FALSE

\* Package.Name of a package on the recursion stack
OnStack(name, stack) == \E i \in DOMAIN stack : stack[i] = name

\* a resolver that looks for a candidate again although the name is resolved
AlreadyResolved_Reselect(res, dep) == FALSE

\* resolvePackage: "if existing, ok := resolved[depName]; ok"
AlreadyResolved(res, dep) == dep \in DOMAIN res

\* a resolver that keeps an existing selection without testing the constraint
Conflicts_Unchecked(constraint, existing) == FALSE

\* resolvePackage: "!constraint.Satisfies(existing.Version)"
Conflicts(constraint, existing) == ~Satisfies(constraint, existing.version)

\* a less function that orders the oldest version first
NewerFirst_OldestFirst(a, b) == Compare(a.version, b.version) < 0

\* the less function handed to sort.Slice
NewerFirst(a, b) == Compare(a.version, b.version) > 0

\* sort.Slice(candidates, less): every arrangement an unstable sort may leave
SortSlice(cands) ==
    LET n == Cardinality(cands)
    IN  {s \in [1..n -> cands] :
            /\ \A i, j \in 1..n : i # j => s[i] # s[j]
            /\ \A i, j \in 1..n : i < j => ~NewerFirst(s[j], s[i])}

\* "Find first compatible version": index of the first candidate that satisfies, 0 if none
FirstCompatible(sorted, constraint) ==
    IF \E i \in DOMAIN sorted : Satisfies(constraint, sorted[i].version)
    THEN CHOOSE i \in DOMAIN sorted :
            /\ Satisfies(constraint, sorted[i].version)
            /\ \A j \in 1..(i - 1) : ~Satisfies(constraint, sorted[j].version)
    ELSE 0

\* r.packages[depName]
Candidates(dep) == {p \in pool : p.name = dep}

\* resolvePackage: one iteration of the loop over pkg.Dependencies
resolvePackageStep(dep) ==
    /\ rpc = "resolving"
    /\ frames # <<>>
    /\ dep \in Top(frames).todo
    /\ depName' = dep
    /\ LET f          == Top(frames)
           constraint == f.pkg.deps[dep]
           rest       == [frames EXCEPT ![Len(frames)].todo = f.todo \ {dep}]
       IN  IF AlreadyResolved(resolved, dep)
           THEN IF Conflicts(constraint, resolved[dep])
                THEN Fail("VersionConflict") /\ UNCHANGED resolved
                ELSE /\ frames' = rest
                     /\ UNCHANGED <<rpc, result, resolution, resolved>>
           ELSE IF Candidates(dep) = {}
                THEN Fail("PackageNotFound") /\ UNCHANGED resolved
                ELSE \E sorted \in SortSlice(Candidates(dep)) :
                        LET k == FirstCompatible(sorted, constraint)
                        IN  IF k = 0
                            THEN Fail("NoCompatibleVersion") /\ UNCHANGED resolved
                            ELSE /\ resolved' = (dep :> sorted[k]) @@ resolved
                                 /\ IF OnStack(sorted[k].name, f.stack)
                                    THEN Fail("CircularDependency")
                                    ELSE /\ frames' = Append(rest, Frame(sorted[k], f.stack))
                                         /\ UNCHANGED <<rpc, result, resolution>>
    /\ UNCHANGED <<pool, rootPkg, visited, toVisit, visits, order>>
    /\ UNCHANGED fvars

\* resolvePackage returns nil; the outermost return ends Resolve
resolvePackageReturn ==
    /\ rpc = "resolving"
    /\ frames # <<>>
    /\ Top(frames).todo = {}
    /\ depName' = NoName
    /\ frames' = Pop(frames)
    /\ IF Len(frames) = 1
       THEN LET kept == [n \in DOMAIN resolved \ {rootPkg.name} |-> resolved[n]]
            IN  /\ resolved' = kept
                /\ resolution' = kept
                /\ result' = "ok"
                /\ rpc' = "resolved"
       ELSE UNCHANGED <<resolved, resolution, result, rpc>>
    /\ UNCHANGED <<pool, rootPkg, visited, toVisit, visits, order>>
    /\ UNCHANGED fvars

(***************************************************************************)
(* Resolution.GetResolutionOrder                                           *)
(***************************************************************************)
\* graph[name]: the dependencies of a package that are in the resolution
Graph(res, name) == DOMAIN res[name].deps \cap DOMAIN res

\* GetResolutionOrder is called on the Resolution that Resolve returned
GetResolutionOrder ==
    /\ rpc = "resolved"
    /\ result = "ok"
    /\ rpc' = "ordering"
    /\ toVisit' = DOMAIN resolution
    /\ visited' = {}
    /\ visits' = <<>>
    /\ order' = <<>>
    /\ UNCHANGED <<pool, rootPkg, resolved, frames, depName, result, resolution>>
    /\ UNCHANGED fvars

\* visit(name): the call, up to the loop over graph[name]
Visit(name) ==
    IF name \in visited
    THEN UNCHANGED <<visited, visits>>
    ELSE /\ visited' = visited \cup {name}
         /\ visits' = Append(visits, [name |-> name, todo |-> Graph(resolution, name)])

\* "for name := range packages { visit(name) }"
visitStart(name) ==
    /\ rpc = "ordering"
    /\ visits = <<>>
    /\ name \in toVisit
    /\ toVisit' = toVisit \ {name}
    /\ Visit(name)
    /\ UNCHANGED <<pool, rpc, rootPkg, resolved, frames, depName, result, resolution, order>>
    /\ UNCHANGED fvars

\* "for _, dep := range graph[name] { visit(dep) }"
visitDep(dep) ==
    /\ rpc = "ordering"
    /\ visits # <<>>
    /\ dep \in Top(visits).todo
    /\ LET rest == [visits EXCEPT ![Len(visits)].todo = Top(visits).todo \ {dep}]
       IN  IF dep \in visited
           THEN visits' = rest /\ UNCHANGED visited
           ELSE /\ visited' = visited \cup {dep}
                /\ visits' = Append(rest, [name |-> dep, todo |-> Graph(resolution, dep)])
    /\ UNCHANGED <<pool, rpc, rootPkg, resolved, frames, depName, result, resolution,
                   toVisit, order>>
    /\ UNCHANGED fvars

\* visit(name): "order = append(order, pkg)" and return
visitReturn ==
    /\ rpc = "ordering"
    /\ visits # <<>>
    /\ Top(visits).todo = {}
    /\ order' = Append(order, resolution[Top(visits).name])
    /\ visits' = Pop(visits)
    /\ UNCHANGED <<pool, rpc, rootPkg, resolved, frames, depName, result, resolution,
                   visited, toVisit>>
    /\ UNCHANGED fvars

\* GetResolutionOrder returns order
orderReturn ==
    /\ rpc = "ordering"
    /\ visits = <<>>
    /\ toVisit = {}
    /\ rpc' = "ordered"
    /\ UNCHANGED <<pool, rootPkg, resolved, frames, depName, result, resolution,
                   visited, toVisit, visits, order>>
    /\ UNCHANGED fvars

ResolverNext ==
    \/ \E pkg \in Universe : AddPackage(pkg)
    \/ \E m \in Manifests : Resolve(m)
    \/ \E dep \in Names : resolvePackageStep(dep)
    \/ resolvePackageReturn
    \/ GetResolutionOrder
    \/ \E name \in Names : visitStart(name)
    \/ \E dep \in Names : visitDep(dep)
    \/ visitReturn
    \/ orderReturn



(***************************************************************************)
(* The file system.  A path is a sequence of components, a component is a  *)
(* text; fs maps every existing path to its node.  The operators are the   *)
(* calls of package os the installer and the uninstaller make.             *)
(***************************************************************************)
DirNode == [kind |-> "dir", target |-> <<>>, data |-> <<>>]

FileNode(d) == [kind |-> "file", target |-> <<>>, data |-> d]

LinkNode(t) == [kind |-> "link", target |-> t, data |-> <<>>]

Parent(p) == SubSeq(p, 1, Len(p) - 1)

Base(p) == p[Len(p)]

IsPrefix(p, q) == Len(p) <= Len(q) /\ SubSeq(q, 1, Len(p)) = p

\* the path a lookup ends at once every symbolic link on the way is followed
RECURSIVE Walk(_, _, _)
Walk(f, cur, rest) ==
    IF rest = <<>> THEN cur
    ELSE LET nxt == Append(cur, Head(rest))
         IN  IF nxt \in DOMAIN f /\ f[nxt].kind = "link"
             THEN Walk(f, <<>>, f[nxt].target \o Tail(rest))
             ELSE Walk(f, nxt, Tail(rest))

\* where os.Stat looks: links followed, the last component included
Real(f, p) == Walk(f, <<>>, p)

\* where os.Lstat, os.Remove and os.Symlink look: the last component is not followed
RealL(f, p) == Append(Walk(f, <<>>, Parent(p)), Base(p))

\* os.Stat(p) returns no error
Stat(f, p) == Real(f, p) \in DOMAIN f

\* os.Lstat(p) returns no error
Lstat(f, p) == RealL(f, p) \in DOMAIN f

IsDir(f, p) == Stat(f, p) /\ f[Real(f, p)].kind = "dir"

\* os.ReadDir(p): the names of the entries of directory p
ReadDir(f, p) ==
    {Base(q) : q \in {r \in DOMAIN f : Parent(r) = Real(f, p)}}

Without(f, gone) == [q \in DOMAIN f \ gone |-> f[q]]

With(f, p, node) == (p :> node) @@ f

FsOk(f) == [err |-> FALSE, f |-> f]

FsErr(f) == [err |-> TRUE, f |-> f]

\* os.MkdirAll(p)
RECURSIVE MkdirAll(_, _)
MkdirAll(f, p) ==
    IF Stat(f, p)
    THEN IF IsDir(f, p) THEN FsOk(f) ELSE FsErr(f)
    ELSE LET up == IF Len(p) > 1 THEN MkdirAll(f, Parent(p)) ELSE FsOk(f)
         IN  IF up.err THEN up
             ELSE IF RealL(up.f, p) \in DOMAIN up.f
                  THEN FsErr(up.f)
                  ELSE FsOk(With(up.f, RealL(up.f, p), DirNode))

\* os.RemoveAll(p): a link is removed itself, a directory with all it holds
RemoveAll(f, p) ==
    LET lp == RealL(f, p)
    IN  IF lp \notin DOMAIN f THEN f
        ELSE IF f[lp].kind = "dir"
             THEN Without(f, {q \in DOMAIN f : IsPrefix(lp, q)})
             ELSE Without(f, {lp})

\* an os.Remove that removes nothing
Remove_Fails(f, p) == FsErr(f)

\* os.Remove(p): a file, a link or an empty directory
Remove(f, p) ==
    LET lp == RealL(f, p)
    IN  IF lp \notin DOMAIN f THEN FsErr(f)
        ELSE IF f[lp].kind = "dir" /\ \E q \in DOMAIN f : Parent(q) = lp
             THEN FsErr(f)
             ELSE FsOk(Without(f, {lp}))

\* os.Symlink(target, p)
Symlink(f, target, p) ==
    IF Lstat(f, p) \/ ~IsDir(f, Parent(p)) THEN FsErr(f)
    ELSE FsOk(With(f, RealL(f, p), LinkNode(target)))

\* the bytes a file holds after data is written from offset 0 without truncation
Overwrite(old, data) ==
    IF Len(old) > Len(data) THEN data \o SubSeq(old, Len(data) + 1, Len(old)) ELSE data

\* os.OpenFile(p, O_CREATE|O_RDWR) followed by io.Copy of data
WriteFile(f, p, data) ==
    LET rp == Real(f, p)
    IN  IF ~IsDir(f, Parent(rp)) \/ (rp \in DOMAIN f /\ f[rp].kind # "file") THEN FsErr(f)
        ELSE FsOk(With(f, rp, FileNode(IF rp \in DOMAIN f
                                         THEN Overwrite(f[rp].data, data)
                                         ELSE data)))

\* os.Create(p) followed by io.Copy of data: the file is truncated first
CreateFile(f, p, data) ==
    LET rp == Real(f, p)
    IN  IF ~IsDir(f, Parent(rp)) \/ (rp \in DOMAIN f /\ f[rp].kind # "file") THEN FsErr(f)
        ELSE FsOk(With(f, rp, FileNode(data)))

(***************************************************************************)
(* internal/config: the directories of the three scopes and of the cache   *)
(***************************************************************************)
PackagesDir == << <<"~/.carrion/packages">> >>

CacheDir == << <<"~/.carrion/cache">> >>

ModulesDir == << <<"carrion_modules">> >>

GetSharedGlobalPackagesDir == << <<"/usr/local/share/carrion/lib">> >>

PackagePath(name, version) == PackagesDir \o <<name, version>>

LocalPackagePath(name, version) == ModulesDir \o <<name, version>>

CachePath(filename) == CacheDir \o <<filename>>

LocalModulesPath == ModulesDir

(***************************************************************************)
(* The registry collaborator and the archives it serves                    *)
(***************************************************************************)
LatestText == <<"l", "a", "t", "e", "s", "t">>

TarGz == <<".tar.gz">>

TempSuffix == <<"-temp">>

\* the version the registry reports for "latest"
LatestVersion(name) == VersionString(Ver(2, 0, 0))

\* the versions the registry has published of every package
Published == {VersionString(v) : v \in Versions}

\* the names of the tar entries of every archive
EntryNames == << <<"main.crl">> >>

\* the tar entries of the archive of name@version: regular files holding the version
Archive(name, version) ==
    [k \in DOMAIN EntryNames |->
        [name |-> EntryNames[k], typeflag |-> "reg", data |-> version]]

\* Client.GetPackageInfo: PackageInfo, or an error for an unknown package
GetPackageInfo(name, version) ==
    IF version = LatestText
    THEN [err |-> FALSE, Name |-> name, Version |-> LatestVersion(name)]
    ELSE [err |-> version \notin Published, Name |-> name, Version |-> version]

\* the points at which the network or the disk may fail a call
NoFault == [at |-> "none", entry |-> 0]

\* the faults of a download and extraction
Faults ==
    {[at |-> a, entry |-> 0] : a \in {"none", "info", "download", "save", "gzip"}}
        \cup {[at |-> "copy", entry |-> k] : k \in DOMAIN EntryNames}

\* the shared directory is not writable
PermFault == [at |-> "perm", entry |-> 0]

\* os.RemoveAll fails
RemoveFault == [at |-> "remove", entry |-> 0]

(***************************************************************************)
(* internal/install: Installer                                             *)
(***************************************************************************)
\* what a call returns: the file system it leaves, its error, the downloads it made
Ret(f, err, dl) ==
    [f |-> f, err |-> err, dl |-> dl, kind |-> IF err THEN "failed" ELSE "none"]

\* the error "package ... is not installed locally / globally"
NotInstalled(f) == [f |-> f, err |-> TRUE, dl |-> 0, kind |-> "NotInstalled"]

ArchiveName(name, version) == name \o <<"-">> \o version \o TarGz

\* Installer.saveToFile: a failed copy leaves the file created and cut short
saveToFile(f, data, destPath, fault) ==
    LET dir == MkdirAll(f, Parent(destPath))
    IN  IF dir.err THEN dir
        ELSE IF fault.at = "save" THEN FsErr(CreateFile(dir.f, destPath, <<>>).f)
        ELSE CreateFile(dir.f, destPath, data)

\* filepath.Clean on the elements of a path: an empty element and "." go, ".."
\* goes together with the element before it, ".." with nothing before it stays
RECURSIVE Clean(_, _)
Clean(done, elems) ==
    IF elems = <<>> THEN done
    ELSE LET e == Head(elems)
         IN  IF e = <<>> \/ e = <<".">>
             THEN Clean(done, Tail(elems))
             ELSE IF e = <<"..">> /\ done # <<>> /\ Top(done) # <<"..">>
             THEN Clean(Pop(done), Tail(elems))
             ELSE Clean(Append(done, e), Tail(elems))

\* filepath.Join(dir, name): the elements of dir, then those of name, cleaned
Join(dir, name) == Clean(<<>>, dir \o Split(name, "/"))

\* Installer.extractTarGz: the entries of the stream are written under destDir in turn
RECURSIVE extractEntries(_, _, _, _, _)
extractEntries(f, entries, k, destDir, fault) ==
    IF k > Len(entries) THEN FsOk(f)
    ELSE LET header == entries[k]
             target == Join(destDir, header.name)
         IN  IF header.typeflag = "dir"
             THEN LET d == MkdirAll(f, target)
                  IN  IF d.err THEN d
                      ELSE extractEntries(d.f, entries, k + 1, destDir, fault)
             ELSE IF header.typeflag = "reg"
             THEN LET d == MkdirAll(f, Parent(target))
                  IN  IF d.err THEN d
                      ELSE IF fault.at = "copy" /\ fault.entry = k
                      THEN FsErr(WriteFile(d.f, target, <<Head(header.data)>>).f)
                      ELSE LET w == WriteFile(d.f, target, header.data)
                           IN  IF w.err THEN w
                               ELSE extractEntries(w.f, entries, k + 1, destDir, fault)
             ELSE extractEntries(f, entries, k + 1, destDir, fault)

extractTarGz(f, entries, destDir, fault) ==
    IF fault.at = "gzip" \/ entries = <<>> THEN FsErr(f)
    ELSE extractEntries(f, entries, 1, destDir, fault)

\* Installer.InstallFromArchive and InstallFromArchiveToLocal, given the install path
InstallFromArchiveTo(f, archivePath, installPath, fault) ==
    LET d == MkdirAll(f, installPath)
    IN  IF d.err THEN d
        ELSE IF ~Stat(d.f, archivePath) THEN FsErr(d.f)
        ELSE extractTarGz(d.f, d.f[Real(d.f, archivePath)].data, installPath, fault)

InstallFromArchive(f, archivePath, pkg, fault) ==
    InstallFromArchiveTo(f, archivePath,
                         PackagePath(<<pkg.name>>, VersionString(pkg.version)), fault)

InstallFromArchiveToLocal(f, archivePath, pkg, version, fault) ==
    InstallFromArchiveTo(f, archivePath, LocalPackagePath(<<pkg.name>>, version), fault)

\* installPackage without the check "already installed"
installPackage_NoPresenceCheck(f, pkg, fault) ==
    LET version     == VersionString(pkg.version)
        info        == GetPackageInfo(<<pkg.name>>, version)
        archivePath == CachePath(ArchiveName(<<pkg.name>>, version))
        saved       == saveToFile(f, Archive(<<pkg.name>>, version), archivePath, fault)
        installed   == InstallFromArchive(saved.f, archivePath, pkg, fault)
    IN  IF fault.at = "info" \/ info.err THEN Ret(f, TRUE, 0)
        ELSE IF fault.at = "download" THEN Ret(f, TRUE, 0)
        ELSE IF saved.err THEN Ret(saved.f, TRUE, 1)
        ELSE IF installed.err THEN Ret(installed.f, TRUE, 1)
        ELSE Ret(Remove(installed.f, archivePath).f, FALSE, 1)

\* Installer.installPackage
installPackage(f, pkg, fault) ==
    LET version     == VersionString(pkg.version)
        installPath == PackagePath(<<pkg.name>>, version)
        info        == GetPackageInfo(<<pkg.name>>, version)
        archivePath == CachePath(ArchiveName(<<pkg.name>>, version))
        saved       == saveToFile(f, Archive(<<pkg.name>>, version), archivePath, fault)
        installed   == InstallFromArchive(saved.f, archivePath, pkg, fault)
    IN  IF Stat(f, installPath) THEN Ret(f, FALSE, 0)
        ELSE IF fault.at = "info" \/ info.err THEN Ret(f, TRUE, 0)
        ELSE IF fault.at = "download" THEN Ret(f, TRUE, 0)
        ELSE IF saved.err THEN Ret(saved.f, TRUE, 1)
        ELSE IF installed.err THEN Ret(installed.f, TRUE, 1)
        ELSE Ret(Remove(installed.f, archivePath).f, FALSE, 1)

\* Installer.copyDirectory: every directory and file under src is created under dst
copyDirectory(f, src, dst) ==
    LET from   == Real(f, src)
        to     == Real(f, dst)
        moved  == {q \in DOMAIN f : IsPrefix(from, q) /\ q # from}
        dest(q) == to \o SubSeq(q, Len(from) + 1, Len(q))
    IN  [q \in {dest(r) : r \in moved} |->
            LET r == CHOOSE r \in moved : dest(r) = q
            IN  IF f[r].kind = "dir" THEN DirNode ELSE FileNode(f[r].data)] @@ f

\* Installer.InstallGlobal
InstallGlobal(f, pkg, sourcePath, fault) ==
    LET installPath == GetSharedGlobalPackagesDir \o <<<<pkg.name>>, VersionString(pkg.version)>>
        d           == MkdirAll(f, installPath)
    IN  IF Stat(f, installPath) THEN FsOk(f)
        ELSE IF fault.at = "perm" THEN FsErr(f)
        ELSE IF d.err THEN FsErr(d.f)
        ELSE FsOk(copyDirectory(d.f, sourcePath, installPath))

\* the Package that InstallPackageByName and InstallPackageLocalByName build
NamedPackage(info, version) ==
    [name    |-> Head(info.Name),
     version |-> IF version # LatestText /\ info.Version # <<>> /\ ~Parse(info.Version).err
                 THEN Parse(info.Version).v
                 ELSE Ver(0, 0, 1),
     deps    |-> EmptyMap]

\* Installer.InstallPackageLocalByName
InstallPackageLocalByName(f, packageName, versionArg, fault) ==
    LET version     == IF versionArg = <<>> THEN LatestText ELSE versionArg
        info        == GetPackageInfo(packageName, version)
        pkg         == NamedPackage(info, version)
        installPath == LocalPackagePath(<<pkg.name>>, info.Version)
        archivePath == CachePath(ArchiveName(<<pkg.name>>, info.Version))
        saved       == saveToFile(f, Archive(<<pkg.name>>, info.Version), archivePath, fault)
        installed   == InstallFromArchiveToLocal(saved.f, archivePath, pkg, info.Version, fault)
    IN  IF fault.at = "info" \/ info.err THEN Ret(f, TRUE, 0)
        ELSE IF Stat(f, installPath) THEN Ret(f, FALSE, 0)
        ELSE IF fault.at = "download" THEN Ret(f, TRUE, 0)
        ELSE IF saved.err THEN Ret(saved.f, TRUE, 1)
        ELSE IF installed.err THEN Ret(installed.f, TRUE, 1)
        ELSE Ret(Remove(installed.f, archivePath).f, FALSE, 1)

\* Installer.InstallPackageByName
InstallPackageByName(f, packageName, versionArg, global, fault) ==
    LET version     == IF versionArg = <<>> THEN LatestText ELSE versionArg
        info        == GetPackageInfo(packageName, version)
        pkg         == NamedPackage(info, version)
        pkgVersion  == VersionString(pkg.version)
        archivePath == CachePath(ArchiveName(<<pkg.name>>, pkgVersion))
        saved       == saveToFile(f, Archive(<<pkg.name>>, info.Version), archivePath, fault)
        tempDir     == CachePath(<<pkg.name>> \o <<"-">> \o pkgVersion \o TempSuffix)
        temp        == MkdirAll(saved.f, tempDir)
        extracted   == extractTarGz(temp.f, temp.f[Real(temp.f, archivePath)].data,
                                    tempDir, fault)
        placed      == InstallGlobal(extracted.f, pkg, tempDir, fault)
    IN  IF ~global THEN InstallPackageLocalByName(f, packageName, versionArg, fault)
        ELSE IF fault.at = "info" \/ info.err THEN Ret(f, TRUE, 0)
        ELSE IF fault.at = "download" THEN Ret(f, TRUE, 0)
        ELSE IF saved.err THEN Ret(saved.f, TRUE, 1)
        ELSE IF temp.err THEN Ret(temp.f, TRUE, 1)
        ELSE IF extracted.err THEN Ret(RemoveAll(extracted.f, tempDir), TRUE, 1)
        ELSE IF placed.err THEN Ret(RemoveAll(placed.f, tempDir), TRUE, 1)
        ELSE Ret(RemoveAll(Remove(placed.f, archivePath).f, tempDir), FALSE, 1)

\* Installer.CreateSymlinks
CreateSymlinks(f, pkg) ==
    LET installPath == PackagePath(<<pkg.name>>, VersionString(pkg.version))
        linkPath    == LocalModulesPath \o <<<<pkg.name>>>>
        cleared     == Remove(f, linkPath).f
        dir         == MkdirAll(cleared, Parent(linkPath))
        linked      == Symlink(dir.f, installPath, linkPath)
    IN  IF dir.err THEN Ret(dir.f, TRUE, 0) ELSE Ret(linked.f, linked.err, 0)

(***************************************************************************)
(* internal/uninstall: Uninstaller                                         *)
(***************************************************************************)
\* Uninstaller.isSymlink
isSymlink(f, path) == Lstat(f, path) /\ f[RealL(f, path)].kind = "link"

\* Uninstaller.isDirEmpty: false when the directory cannot be read
isDirEmpty(f, dir) == IsDir(f, dir) /\ ReadDir(f, dir) = {}

\* Uninstaller.cleanupSymlinks
cleanupSymlinks(f, packageName) ==
    LET linkPath == LocalModulesPath \o <<packageName>>
    IN  IF Lstat(f, linkPath) /\ isSymlink(f, linkPath) THEN Remove(f, linkPath).f ELSE f

\* Uninstaller.uninstallSpecificVersion
uninstallSpecificVersion(f, packageName, version, global, fault) ==
    LET localPath   == LocalPackagePath(packageName, version)
        packagePath == IF global
                       THEN GetSharedGlobalPackagesDir \o <<packageName, version>>
                       ELSE IF Stat(f, localPath) THEN localPath
                       ELSE PackagePath(packageName, version)
        removed     == RemoveAll(f, packagePath)
        unlinked    == cleanupSymlinks(removed, packageName)
        packageDir  == Parent(packagePath)
    IN  IF ~Stat(f, packagePath) THEN NotInstalled(f)
        ELSE IF fault.at = "remove" THEN Ret(f, TRUE, 0)
        ELSE IF isDirEmpty(unlinked, packageDir)
             THEN Ret(Remove(unlinked, packageDir).f, FALSE, 0)
             ELSE Ret(unlinked, FALSE, 0)

\* Uninstaller.uninstallAllVersions
uninstallAllVersions(f, packageName, global, fault) ==
    LET localPackageDir == ModulesDir \o <<packageName>>
        packageDir      == IF global THEN GetSharedGlobalPackagesDir \o <<packageName>>
                           ELSE IF Stat(f, localPackageDir) THEN localPackageDir
                           ELSE PackagesDir \o <<packageName>>
        versions        == ReadDir(f, packageDir)
    IN  IF ~Stat(f, packageDir) THEN NotInstalled(f)
        ELSE IF ~IsDir(f, packageDir) THEN Ret(f, TRUE, 0)
        ELSE IF versions = {} THEN Ret(f, TRUE, 0)
        ELSE IF fault.at = "remove" THEN Ret(f, TRUE, 0)
        ELSE Ret(cleanupSymlinks(RemoveAll(f, packageDir), packageName), FALSE, 0)

\* an UninstallPackage that removes every version whatever version is named
UninstallPackage_AllVersions(f, packageName, version, global, fault) ==
    uninstallAllVersions(f, packageName, global, fault)

\* Uninstaller.UninstallPackage
UninstallPackage(f, packageName, version, global, fault) ==
    IF version = <<>>
    THEN uninstallAllVersions(f, packageName, global, fault)
    ELSE uninstallSpecificVersion(f, packageName, version, global, fault)

\* Uninstaller.listPackagesInDir: the name@version pairs it prints for a scope
\* directory; an entry that os.ReadDir does not report as a directory is skipped
listPackagesInDir(f, packagesDir) ==
    LET dirsIn(d) == {e \in ReadDir(f, d) : f[Real(f, d) \o <<e>>].kind = "dir"}
    IN  UNION {{<<name, version>> : version \in dirsIn(packagesDir \o <<name>>)} :
                  name \in dirsIn(packagesDir)}

(***************************************************************************)
(* The installer and the uninstaller at work                               *)
(***************************************************************************)
\* the most installer and uninstaller calls made in one behaviour
MaxOps == 3

\* the directories Config.Init creates
InitFs == (PackagesDir :> DirNode) @@ (CacheDir :> DirNode)

NoCall == [op |-> "none", name |-> <<>>, version |-> <<>>, global |-> FALSE,
           fault |-> NoFault, err |-> FALSE, dl |-> 0, kind |-> "none"]

Call(op, name, version, global, fault, ret) ==
    [op |-> op, name |-> name, version |-> version, global |-> global,
     fault |-> fault, err |-> ret.err, dl |-> ret.dl, kind |-> ret.kind]

\* no manifest loaded
NoManifest == [deps |-> EmptyMap, dev |-> EmptyMap]

\* no function was called on its own
NoInput == [fn |-> "none"]

NoOutput == [fn |-> "none"]

\* one invocation of the tool, and no other beside it
NoProcs == <<>>

FsInit ==
    /\ fs = InitFs
    /\ last = NoCall
    /\ nops = 0
    /\ processed = <<>>
    /\ mpc = "idle"
    /\ manifest = NoManifest
    /\ allDeps = EmptyMap
    /\ pending = {}
    /\ input = NoInput
    /\ output = NoOutput
    /\ procs = NoProcs

\* the one package name the calls below are made with
PackageName == <<"A">>

\* the packages handed to Install and CreateSymlinks
Installable == {p \in Universe : <<p.name>> = PackageName /\ p.deps = EmptyMap}

\* the version argument of InstallPackageByName: none, or a published version
VersionArgs == {<<>>} \cup Published

\* the version argument of UninstallPackage: none, or a version an install may have used
UninstallArgs == VersionArgs \cup {VersionString(Ver(0, 0, 1))}

\* a call returns: what it did to the file system, and what it returned
Done(call, f) ==
    /\ nops' = nops + 1
    /\ last' = call
    /\ fs' = f
    /\ UNCHANGED <<processed, pool, rpc, rootPkg, resolved, frames, depName, result,
                   resolution, visited, toVisit, visits, order>>
    /\ UNCHANGED mvars

\* Installer.Install on a Resolution of the single package pkg
InstallOne(pkg, fault) ==
    /\ nops < MaxOps
    /\ LET ret == installPackage(fs, pkg, fault)
       IN  Done(Call("Install", <<pkg.name>>, VersionString(pkg.version), FALSE, fault, ret),
                ret.f)

\* Installer.InstallPackageByName
InstallByName(versionArg, global, fault) ==
    /\ nops < MaxOps
    /\ LET ret == InstallPackageByName(fs, PackageName, versionArg, global, fault)
       IN  Done(Call("InstallPackageByName", PackageName, versionArg, global, fault, ret),
                ret.f)

\* Installer.CreateSymlinks
Link(pkg) ==
    /\ nops < MaxOps
    /\ LET ret == CreateSymlinks(fs, pkg)
       IN  Done(Call("CreateSymlinks", <<pkg.name>>, VersionString(pkg.version), FALSE,
                     NoFault, ret),
                ret.f)

\* Uninstaller.UninstallPackage
Uninstall(version, global, fault) ==
    /\ nops < MaxOps
    /\ LET ret == UninstallPackage(fs, PackageName, version, global, fault)
       IN  Done(Call("UninstallPackage", PackageName, version, global, fault, ret), ret.f)

LifecycleNext ==
    \/ \E pkg \in Installable, fault \in Faults : InstallOne(pkg, fault)
    \/ \E v \in VersionArgs, fault \in Faults : InstallByName(v, FALSE, fault)
    \/ \E v \in VersionArgs, fault \in Faults \cup {PermFault} : InstallByName(v, TRUE, fault)
    \/ \E pkg \in Installable : Link(pkg)
    \/ \E v \in UninstallArgs, g \in BOOLEAN, fault \in {NoFault, RemoveFault} :
          Uninstall(v, g, fault)

Init == ResolverInit /\ FsInit

\* the installer and the uninstaller called in any order on one package name
Spec == Init /\ [][LifecycleNext]_vars

\* the resolver: a pool is filled, Resolve runs, the install order is computed
SpecResolver == Init /\ [][ResolverNext]_vars

\* the resolver as it runs: resolvePackage is sequential code on one goroutine, so a
\* call that has a dependency left takes it, and a call that has none returns
SpecResolverRuns ==
    /\ Init
    /\ [][ResolverNext]_vars
    /\ WF_vars(\E dep \in Names : resolvePackageStep(dep))
    /\ WF_vars(resolvePackageReturn)

(***************************************************************************)
(* Installer.Install on a Resolution of several packages                   *)
(***************************************************************************)
\* the Resolutions Resolve returns: dependency-closed, every constraint satisfied
Resolutions ==
    {res \in UNION {[S -> Universe] : S \in SUBSET Names} :
        \A n \in DOMAIN res :
            /\ res[n].name = n
            /\ \A d \in DOMAIN res[n].deps :
                  d \in DOMAIN res /\ Satisfies(res[n].deps[d], res[d].version)}

InstallInit ==
    /\ FsInit
    /\ pool = {}
    /\ rpc = "resolved"
    /\ rootPkg = NoPackage
    /\ resolved = EmptyMap
    /\ frames = <<>>
    /\ depName = NoName
    /\ result = "ok"
    /\ resolution \in Resolutions
    /\ visited = {}
    /\ toVisit = {}
    /\ visits = <<>>
    /\ order = <<>>

\* Install: one turn of the loop over GetResolutionOrder()
installStep(fault) ==
    /\ rpc = "ordered"
    /\ Len(processed) < Len(order)
    /\ LET pkg == order[Len(processed) + 1]
           ret == installPackage(fs, pkg, fault)
       IN  /\ fs' = ret.f
           /\ processed' = Append(processed, [pkg |-> pkg, err |-> ret.err, dl |-> ret.dl])
           /\ IF ret.err
              THEN /\ rpc' = "installed"
                   /\ last' = Call("Install", <<pkg.name>>, VersionString(pkg.version),
                                   FALSE, fault, ret)
              ELSE UNCHANGED <<rpc, last>>
    /\ UNCHANGED <<nops, pool, rootPkg, resolved, frames, depName, result, resolution,
                   visited, toVisit, visits, order>>
    /\ UNCHANGED mvars

\* Install returns nil
installReturn ==
    /\ rpc = "ordered"
    /\ Len(processed) = Len(order)
    /\ rpc' = "installed"
    /\ last' = Call("Install", <<>>, <<>>, FALSE, NoFault, Ret(fs, FALSE, 0))
    /\ UNCHANGED <<fs, nops, processed, pool, rootPkg, resolved, frames, depName, result,
                   resolution, visited, toVisit, visits, order>>
    /\ UNCHANGED mvars

InstallNext ==
    \/ GetResolutionOrder
    \/ \E name \in Names : visitStart(name)
    \/ \E dep \in Names : visitDep(dep)
    \/ visitReturn
    \/ orderReturn
    \/ \E fault \in Faults : installStep(fault)
    \/ installReturn

\* Install(resolution) on every Resolution that Resolve returns
SpecInstall == InstallInit /\ [][InstallNext]_vars

(***************************************************************************)
(* Uninstaller.UninstallFromManifest                                       *)
(***************************************************************************)
\* the package names a manifest records
ManifestNames == {<<"A">>, <<"B">>}

\* the version strings a manifest records: an exact version, a caret range, a
\* comparison
RecordedVersions == {VersionString(Ver(1, 2, 0)), CaretOne, AtLeastOne}

\* the tables [dependencies] and [dev-dependencies] of a manifest
DepTables == UNION {[S -> RecordedVersions] : S \in SUBSET ManifestNames}

NamedVersion(name, v) == [name |-> Head(name), version |-> v, deps |-> EmptyMap]

\* what earlier installs left of a package: nothing, a version or two in user
\* scope, a version in local scope, a version in user scope linked into the project
Setups == {"none", "user", "both", "local", "linked"}

Installed(f, name, how) ==
    LET old    == NamedVersion(name, Ver(1, 2, 0))
        new    == NamedVersion(name, Ver(2, 0, 0))
        user   == installPackage(f, old, NoFault).f
    IN  CASE how = "none"   -> f
          [] how = "user"   -> user
          [] how = "both"   -> installPackage(user, new, NoFault).f
          [] how = "local"  ->
                InstallPackageLocalByName(f, name, VersionString(Ver(1, 2, 0)), NoFault).f
          [] how = "linked" -> CreateSymlinks(user, old).f

ManifestInit ==
    /\ ResolverInit
    /\ fs \in {Installed(Installed(InitFs, <<"A">>, a), <<"B">>, b) : a, b \in Setups}
    /\ last = NoCall
    /\ nops = 0
    /\ processed = <<>>
    /\ mpc = "idle"
    /\ manifest = NoManifest
    /\ allDeps = EmptyMap
    /\ pending = {}
    /\ input = NoInput
    /\ output = NoOutput
    /\ procs = NoProcs

\* an allDeps in which the entry of [dependencies] wins on a duplicate name
MergeDeps_DependenciesWin(deps, dev) == deps @@ dev

\* allDeps: Dependencies, then DevDependencies written over them
MergeDeps(deps, dev) == dev @@ deps

\* "strings.Contains(version, "*") || ... "^" ... || ... "~""
RemovesAllVersions(version) ==
    Contains(version, "*") \/ Contains(version, "^") \/ Contains(version, "~")

\* the error of manifest.Load
LoadFailed(f) == [f |-> f, err |-> TRUE, dl |-> 0, kind |-> "LoadFailed"]

\* UninstallFromManifest, up to the loop over allDeps
manifestLoad(m, loaded) ==
    /\ mpc = "idle"
    /\ IF ~loaded
       THEN /\ mpc' = "returned"
            /\ last' = Call("UninstallFromManifest", <<>>, <<>>, FALSE, NoFault,
                            LoadFailed(fs))
            /\ UNCHANGED <<manifest, allDeps, pending>>
       ELSE LET merged == MergeDeps(m.deps, m.dev)
            IN  /\ manifest' = m
                /\ allDeps' = merged
                /\ pending' = DOMAIN merged
                /\ IF DOMAIN merged = {}
                   THEN /\ mpc' = "returned"
                        /\ last' = Call("UninstallFromManifest", <<>>, <<>>, FALSE,
                                        NoFault, Ret(fs, FALSE, 0))
                   ELSE mpc' = "removing" /\ UNCHANGED last
    /\ UNCHANGED <<fs, nops, processed>>
    /\ UNCHANGED rvars
    /\ UNCHANGED xvars

\* UninstallFromManifest: one turn of the loop over allDeps
manifestRemove(name, fault) ==
    /\ mpc = "removing"
    /\ name \in pending
    /\ LET version == allDeps[name]
           ret     == IF RemovesAllVersions(version)
                      THEN uninstallAllVersions(fs, name, FALSE, fault)
                      ELSE uninstallSpecificVersion(fs, name, version, FALSE, fault)
       IN  /\ fs' = ret.f
           /\ processed' = Append(processed, [name |-> name, version |-> version,
                                              all |-> RemovesAllVersions(version),
                                              err |-> ret.err])
    /\ pending' = pending \ {name}
    /\ UNCHANGED <<last, nops, mpc, manifest, allDeps>>
    /\ UNCHANGED rvars
    /\ UNCHANGED xvars

\* UninstallFromManifest: the empty modules directory is removed, nil is returned
manifestReturn ==
    /\ mpc = "removing"
    /\ pending = {}
    /\ LET modulesDir == LocalModulesPath
           f          == IF Stat(fs, modulesDir) /\ isDirEmpty(fs, modulesDir)
                         THEN Remove(fs, modulesDir).f
                         ELSE fs
       IN  /\ fs' = f
           /\ last' = Call("UninstallFromManifest", <<>>, <<>>, FALSE, NoFault,
                           Ret(f, FALSE, 0))
    /\ mpc' = "returned"
    /\ UNCHANGED <<nops, processed, manifest, allDeps, pending>>
    /\ UNCHANGED rvars
    /\ UNCHANGED xvars

ManifestNext ==
    \/ \E deps \in DepTables, dev \in DepTables, loaded \in BOOLEAN :
          manifestLoad([deps |-> deps, dev |-> dev], loaded)
    \/ \E name \in ManifestNames, fault \in {NoFault, RemoveFault} :
          manifestRemove(name, fault)
    \/ manifestReturn

\* UninstallFromManifest on a project with packages installed
SpecManifest == ManifestInit /\ [][ManifestNext]_vars

(***************************************************************************)
(* Uninstaller.CleanCache                                                  *)
(***************************************************************************)
\* what earlier installs left of a package and in the cache: nothing, an installed
\* version, the archive of an install that failed to extract, the cut archive of
\* a download that failed
CacheSetups == {"none", "user", "gzip", "save"}

Staged(f, name, how) ==
    LET pkg == NamedVersion(name, Ver(1, 2, 0))
    IN  CASE how = "none" -> f
          [] how = "user" -> installPackage(f, pkg, NoFault).f
          [] how = "gzip" -> installPackage(f, pkg, [at |-> "gzip", entry |-> 0]).f
          [] how = "save" -> installPackage(f, pkg, [at |-> "save", entry |-> 0]).f

\* the cache directory of a Config on which Init was not called does not exist
CacheInit ==
    /\ ResolverInit
    /\ \E a, b \in CacheSetups, initialised \in BOOLEAN :
          LET f == Staged(Staged(InitFs, <<"A">>, a), <<"B">>, b)
          IN  fs = IF initialised THEN f ELSE RemoveAll(f, CacheDir)
    /\ last = NoCall
    /\ nops = 0
    /\ processed = <<>>
    /\ mpc = "idle"
    /\ manifest = NoManifest
    /\ allDeps = EmptyMap
    /\ pending = {}
    /\ input = NoInput
    /\ output = NoOutput
    /\ procs = NoProcs

\* a CleanCache that gives up at the first entry it cannot remove
AfterFailedRemoval_GiveUp(rest) == {}

\* CleanCache: "continue" after the warning, the remaining entries are still taken
AfterFailedRemoval(rest) == rest

\* CleanCache, up to the loop over the entries
cleanStart ==
    /\ mpc \in {"idle", "returned"}
    /\ nops < MaxOps
    /\ nops' = nops + 1
    /\ processed' = <<>>
    /\ IF ~Stat(fs, CacheDir)
       THEN /\ mpc' = "returned"
            /\ pending' = {}
            /\ last' = Call("CleanCache", <<>>, <<>>, FALSE, NoFault, Ret(fs, FALSE, 0))
       ELSE IF ~IsDir(fs, CacheDir)
       THEN /\ mpc' = "returned"
            /\ pending' = {}
            /\ last' = Call("CleanCache", <<>>, <<>>, FALSE, NoFault, Ret(fs, TRUE, 0))
       ELSE IF ReadDir(fs, CacheDir) = {}
       THEN /\ mpc' = "returned"
            /\ pending' = {}
            /\ last' = Call("CleanCache", <<>>, <<>>, FALSE, NoFault, Ret(fs, FALSE, 0))
       ELSE /\ mpc' = "cleaning"
            /\ pending' = ReadDir(fs, CacheDir)
            /\ last' = NoCall
    /\ UNCHANGED <<fs, manifest, allDeps>>
    /\ UNCHANGED rvars
    /\ UNCHANGED xvars

\* CleanCache: one turn of the loop, os.RemoveAll on an entry succeeds or fails
cleanEntry(fails) ==
    /\ mpc = "cleaning"
    /\ \E entry \in pending :
          /\ processed' = Append(processed, [name |-> entry, err |-> fails])
          /\ IF fails
             THEN /\ pending' = AfterFailedRemoval(pending \ {entry})
                  /\ UNCHANGED fs
             ELSE /\ pending' = pending \ {entry}
                  /\ fs' = RemoveAll(fs, CachePath(entry))
    /\ UNCHANGED <<last, nops, mpc, manifest, allDeps>>
    /\ UNCHANGED rvars
    /\ UNCHANGED xvars

\* CleanCache returns nil
cleanReturn ==
    /\ mpc = "cleaning"
    /\ pending = {}
    /\ mpc' = "returned"
    /\ last' = Call("CleanCache", <<>>, <<>>, FALSE, NoFault, Ret(fs, FALSE, 0))
    /\ UNCHANGED <<fs, nops, processed, manifest, allDeps, pending>>
    /\ UNCHANGED rvars
    /\ UNCHANGED xvars

CacheNext ==
    \/ cleanStart
    \/ \E fails \in BOOLEAN : cleanEntry(fails)
    \/ cleanReturn

\* CleanCache, called again and again, on a cache that earlier installs have used
SpecCache == CacheInit /\ [][CacheNext]_vars

\* no installer, uninstaller or resolver call is under way
Quiet ==
    /\ ResolverInit
    /\ last = NoCall
    /\ nops = 0
    /\ processed = <<>>
    /\ mpc = "idle"
    /\ manifest = NoManifest
    /\ allDeps = EmptyMap
    /\ pending = {}

(***************************************************************************)
(* UninstallPackage called on a machine on which versions of the package    *)
(* are installed in user scope and globally, one of them linked or none     *)
(***************************************************************************)
\* installPackage on version v, if wanted
UserInstall(f, v, wanted) ==
    IF wanted THEN installPackage(f, NamedVersion(PackageName, v), NoFault).f ELSE f

\* InstallPackageByName with global = true on version v, if wanted
GlobalInstall(f, v, wanted) ==
    IF wanted THEN InstallPackageByName(f, PackageName, VersionString(v), TRUE, NoFault).f
    ELSE f

\* CreateSymlinks on version v, if wanted
MakeLink(f, v, wanted) ==
    IF wanted THEN CreateSymlinks(f, NamedVersion(PackageName, v)).f ELSE f

\* the file systems after version v has been installed in user scope if it is in
\* user, then globally if it is in global, then linked if it is in link
Layout(f, v, user, global, link) ==
    {MakeLink(g, v, v \in link) :
        g \in {GlobalInstall(u, v, v \in global) :
                 u \in {UserInstall(f, v, v \in user)}}}

UninstallInit ==
    /\ Quiet
    /\ input = NoInput
    /\ output = NoOutput
    /\ procs = NoProcs
    /\ \E user, global \in SUBSET Versions :
          \E link \in {l \in SUBSET user : Cardinality(l) <= 1} :
              \E first \in Layout(InitFs, Ver(1, 2, 0), user, global, link) :
                  fs \in Layout(first, Ver(2, 0, 0), user, global, link)

UninstallNext ==
    \E v \in UninstallArgs, g \in BOOLEAN, fault \in {NoFault, RemoveFault} :
        Uninstall(v, g, fault)

\* UninstallPackage called again and again on what installs and links have left
SpecUninstall == UninstallInit /\ [][UninstallNext]_vars

(***************************************************************************)
(* Invocations of the tool side by side on one package of the user scope:   *)
(* two installs and one uninstall of the same version, every file system    *)
(* call a step of its own                                                   *)
(***************************************************************************)
Installers == {"install1", "install2"}

Procs == Installers \cup {"uninstall"}

\* the package all of them are about
RacePackage == NamedVersion(PackageName, Ver(1, 2, 0))

RaceVersion == VersionString(RacePackage.version)

RacePath == PackagePath(PackageName, RaceVersion)

RaceArchive == CachePath(ArchiveName(PackageName, RaceVersion))

\* what a process finds at the install path
Found(f) ==
    IF ~Stat(f, RacePath) THEN "absent"
    ELSE IF \A k \in DOMAIN EntryNames :
                /\ Stat(f, RacePath \o <<EntryNames[k]>>)
                /\ f[Real(f, RacePath \o <<EntryNames[k]>>)]
                       = FileNode(Archive(PackageName, RaceVersion)[k].data)
         THEN "complete"
    ELSE "partial"

\* a process at its first statement
AtStart ==
    [pc |-> "check", err |-> FALSE, stream |-> <<>>, k |-> 0, path |-> <<>>,
     passed |-> FALSE, extracted |-> FALSE, beside |-> FALSE, atReturn |-> "none"]

RaceInit ==
    /\ ResolverInit
    /\ last = NoCall
    /\ nops = 0
    /\ processed = <<>>
    /\ mpc = "idle"
    /\ manifest = NoManifest
    /\ allDeps = EmptyMap
    /\ pending = {}
    /\ input = NoInput
    /\ output = NoOutput
    /\ fs \in {InitFs, installPackage(InitFs, RacePackage, NoFault).f}
    /\ procs = [p \in Procs |-> AtStart]

\* the process has made its first step and not yet returned
Running(rec) == rec.pc \notin {"check", "returned"}

\* the step of p that leaves it as rec and the file system as f; a process has run
\* beside another when one of them made a step while the other was running
Step(p, rec, f) ==
    /\ fs' = f
    /\ procs' = [q \in Procs |->
                    IF q = p
                    THEN [rec EXCEPT !.beside = @ \/ \E o \in Procs \ {p} : Running(procs[o])]
                    ELSE IF Running(procs[q]) THEN [procs[q] EXCEPT !.beside = TRUE]
                    ELSE procs[q]]
    /\ UNCHANGED <<last, nops, processed, mpc, manifest, allDeps, pending, input, output>>
    /\ UNCHANGED rvars

\* p returns
Return(rec, err, f) == [rec EXCEPT !.pc = "returned", !.err = err, !.atReturn = Found(f)]

\* installPackage: the presence check
installCheck(p) ==
    /\ p \in Installers
    /\ procs[p].pc = "check"
    /\ IF Stat(fs, RacePath)
       THEN Step(p, Return(procs[p], FALSE, fs), fs)
       ELSE Step(p, [procs[p] EXCEPT !.pc = "save", !.passed = TRUE], fs)

\* installPackage: the archive is downloaded and saved in the cache
installSave(p) ==
    /\ p \in Installers
    /\ procs[p].pc = "save"
    /\ LET saved == saveToFile(fs, Archive(PackageName, RaceVersion), RaceArchive, NoFault)
       IN  IF saved.err THEN Step(p, Return(procs[p], TRUE, saved.f), saved.f)
           ELSE Step(p, [procs[p] EXCEPT !.pc = "open"], saved.f)

\* InstallFromArchive: the install path is made, the archive opened
installOpen(p) ==
    /\ p \in Installers
    /\ procs[p].pc = "open"
    /\ LET d == MkdirAll(fs, RacePath)
       IN  IF d.err \/ ~Stat(d.f, RaceArchive)
           THEN Step(p, Return(procs[p], TRUE, d.f), d.f)
           ELSE Step(p, [procs[p] EXCEPT !.pc = "entry", !.k = 1,
                                         !.stream = d.f[Real(d.f, RaceArchive)].data], d.f)

\* an extraction that writes nothing
installEntry_Skip(p) ==
    /\ p \in Installers
    /\ procs[p].pc = "entry"
    /\ Step(p, [procs[p] EXCEPT !.pc = "cleanup", !.extracted = TRUE], fs)

\* extractTarGz: the next entry of the open archive is written
installEntry(p) ==
    /\ p \in Installers
    /\ procs[p].pc = "entry"
    /\ LET me == procs[p]
           w  == extractTarGz(fs, <<me.stream[me.k]>>, RacePath, NoFault)
       IN  IF w.err THEN Step(p, Return(me, TRUE, w.f), w.f)
           ELSE IF me.k < Len(me.stream) THEN Step(p, [me EXCEPT !.k = me.k + 1], w.f)
           ELSE Step(p, [me EXCEPT !.pc = "cleanup", !.extracted = TRUE], w.f)

\* installPackage: the archive is removed, success returned
installCleanup(p) ==
    /\ p \in Installers
    /\ procs[p].pc = "cleanup"
    /\ LET f == Remove(fs, RaceArchive).f
       IN  Step(p, Return(procs[p], FALSE, f), f)

\* uninstallSpecificVersion: the scope is chosen, the presence check made
uninstallCheck(p) ==
    /\ p \notin Installers
    /\ procs[p].pc = "check"
    /\ LET localPath   == LocalPackagePath(PackageName, RaceVersion)
           packagePath == IF Stat(fs, localPath) THEN localPath ELSE RacePath
       IN  IF ~Stat(fs, packagePath)
           THEN Step(p, Return(procs[p], TRUE, fs), fs)
           ELSE Step(p, [procs[p] EXCEPT !.pc = "remove", !.path = packagePath], fs)

\* uninstallSpecificVersion: os.RemoveAll(packagePath)
uninstallRemove(p) ==
    /\ p \notin Installers
    /\ procs[p].pc = "remove"
    /\ Step(p, [procs[p] EXCEPT !.pc = "cleanup"], RemoveAll(fs, procs[p].path))

\* uninstallSpecificVersion: the link and the emptied package directory go
uninstallCleanup(p) ==
    /\ p \notin Installers
    /\ procs[p].pc = "cleanup"
    /\ LET unlinked   == cleanupSymlinks(fs, PackageName)
           packageDir == Parent(procs[p].path)
           f          == IF isDirEmpty(unlinked, packageDir)
                         THEN Remove(unlinked, packageDir).f
                         ELSE unlinked
       IN  Step(p, Return(procs[p], FALSE, f), f)

RaceNext ==
    \E p \in Procs :
        \/ installCheck(p)
        \/ installSave(p)
        \/ installOpen(p)
        \/ installEntry(p)
        \/ installCleanup(p)
        \/ uninstallCheck(p)
        \/ uninstallRemove(p)
        \/ uninstallCleanup(p)

\* two installs and an uninstall of one version of one package, interleaved
SpecRace == RaceInit /\ [][RaceNext]_vars

(***************************************************************************)
(* extractTarGz called on its own: a tar stream is extracted into a         *)
(* directory that may hold a file already                                  *)
(***************************************************************************)
MaxEntries == 2

\* header.Name: main.crl, lib, ../evil, /lib
HeaderNames == {<<"main.crl">>, <<"lib">>, <<"..", "/", "evil">>, <<"/", "lib">>}

\* the tar headers of the streams: directories, regular files, symbolic links
Headers ==
    {[name |-> n, typeflag |-> "reg", data |-> d] :
        n \in HeaderNames, d \in {<<"1">>, <<"1", "2">>}}
    \cup {[name |-> n, typeflag |-> t, data |-> <<>>] :
            n \in HeaderNames, t \in {"dir", "sym"}}

\* the tar streams of at most MaxEntries entries
Streams == UNION {[1..n -> Headers] : n \in 1..MaxEntries}

\* the directory the stream is extracted into
DestDir == PackagePath(<<"A">>, VersionString(Ver(1, 2, 0)))

\* what main.crl in the directory holds before the call, <<>> for no file at all
Before == {<<>>, <<"o">>, <<"o", "l", "d">>}

ExtractInit ==
    /\ Quiet
    /\ \E old \in Before :
          LET d == MkdirAll(InitFs, DestDir).f
          IN  fs = IF old = <<>> THEN d ELSE CreateFile(d, DestDir \o << <<"main.crl">> >>, old).f
    /\ input \in {[fn |-> "extractTarGz", entries |-> e, destDir |-> DestDir] : e \in Streams}
    /\ output = NoOutput
    /\ procs = NoProcs

\* the call of extractTarGz, with the read of some entry failing or none
extract(fault) ==
    /\ output = NoOutput
    /\ LET ret == extractTarGz(fs, input.entries, input.destDir, fault)
       IN  /\ fs' = ret.f
           /\ output' = [fn |-> "extractTarGz", err |-> ret.err, fault |-> fault]
    /\ UNCHANGED <<input, procs, last, nops, processed, mpc, manifest, allDeps, pending>>
    /\ UNCHANGED rvars

ExtractNext ==
    \E fault \in {NoFault, [at |-> "gzip", entry |-> 0]}
                 \cup {[at |-> "copy", entry |-> k] : k \in 1..MaxEntries} : extract(fault)

\* extractTarGz applied once to every stream and every directory
SpecExtract == ExtractInit /\ [][ExtractNext]_vars

(***************************************************************************)
(* internal/version called on its own: Parse on a text and String on what   *)
(* it returned, Compare on two versions                                    *)
(***************************************************************************)
MaxText == 7

MaxComponent == 2

\* the characters of the texts: the prefix v, another letter, digits, the dot
Alphabet == {"v", "x", "0", "1", "."}

\* every text of at most MaxText characters
Texts == UNION {[1..n -> Alphabet] : n \in 0..MaxText}

\* every version with components up to MaxComponent
SmallVersions ==
    {Ver(ma, mi, pa) : ma \in 0..MaxComponent, mi \in 0..MaxComponent, pa \in 0..MaxComponent}

VersionInit ==
    /\ Quiet
    /\ fs = InitFs
    /\ input \in {[fn |-> "Parse", v |-> s] : s \in Texts}
                 \cup {[fn |-> "Compare", v |-> a, other |-> b] : a, b \in SmallVersions}
    /\ output = NoOutput
    /\ procs = NoProcs

Returned(out) ==
    /\ output' = out
    /\ UNCHANGED <<input, procs, fs, last, nops, processed, mpc, manifest, allDeps, pending>>
    /\ UNCHANGED rvars

\* version.Parse(v)
parse ==
    /\ input.fn = "Parse"
    /\ output = NoOutput
    /\ LET ret == Parse(input.v)
       IN  Returned([fn |-> "Parse", err |-> ret.err, v |-> ret.v])

\* String() on the version that Parse returned
string ==
    /\ output.fn = "Parse"
    /\ ~output.err
    /\ Returned([fn |-> "String", v |-> output.v, text |-> VersionString(output.v)])

\* v.Compare(other)
compare ==
    /\ input.fn = "Compare"
    /\ output = NoOutput
    /\ Returned([fn |-> "Compare", n |-> Compare(input.v, input.other)])

VersionNext == parse \/ string \/ compare

\* Parse, String and Compare applied to every text and every pair of versions
SpecVersion == VersionInit /\ [][VersionNext]_vars

(***************************************************************************)
(* internal/version called on its own: ParseConstraint on a text and        *)
(* Satisfies, of the constraint it returned, on a version                  *)
(***************************************************************************)
\* components at both ends of the ints
BoundaryComponents == {0, 1, MaxInt - 1, MaxInt}

BoundaryVersions ==
    {Ver(ma, mi, pa) : ma \in BoundaryComponents, mi \in BoundaryComponents,
                       pa \in BoundaryComponents}

\* what may stand in the place of a version: a version, two components, nothing
VersionTexts ==
    {VersionString(v) : v \in BoundaryVersions} \cup {<<"1", ".", "2">>, <<>>}

\* what may stand in front of it
Operators ==
    {<<"^">>, <<"~">>, <<">", "=">>, <<">">>, <<"<", "=">>, <<"<">>, <<"=">>, <<>>}

\* the constraint texts without a comma
SingleTexts == {op \o t : op \in Operators, t \in VersionTexts}

\* the clauses of the constraint texts with commas
Clauses ==
    {op \o t : op \in {<<">", "=">>, <<">">>, <<"<", "=">>, <<"<">>, <<"^">>, <<>>},
               t \in {VersionString(Ver(1, 0, 0)), VersionString(Ver(2, 0, 0)),
                       <<"1", ".", "2">>}}
        \cup {<<>>}

\* the constraint texts of two and of three clauses
CommaTexts ==
    {a \o sep \o b : a, b \in Clauses, sep \in {<<",">>, <<",", " ">>}}
        \cup {a \o <<",">> \o b \o <<",">> \o c : a, b, c \in Clauses}

\* the versions the constraints of the comma texts are asked about
ProbeVersions == {Ver(0, 0, 0), Ver(1, 0, 0), Ver(1, 0, 1), Ver(2, 0, 0)}

ConstraintInit ==
    /\ Quiet
    /\ fs = InitFs
    /\ input \in {[fn |-> "ParseConstraint", s |-> t, v |-> w] :
                      t \in SingleTexts, w \in BoundaryVersions}
                 \cup {[fn |-> "ParseConstraint", s |-> t, v |-> w] :
                          t \in CommaTexts, w \in ProbeVersions}
    /\ output = NoOutput
    /\ procs = NoProcs

\* version.ParseConstraint(s)
parseConstraint ==
    /\ input.fn = "ParseConstraint"
    /\ output = NoOutput
    /\ LET ret == ParseConstraint(input.s)
       IN  Returned([fn |-> "ParseConstraint", err |-> ret.err, c |-> ret.c])

\* Satisfies(v) on the constraint that ParseConstraint returned
satisfies ==
    /\ output.fn = "ParseConstraint"
    /\ ~output.err
    /\ Returned([fn |-> "Satisfies", c |-> output.c, ok |-> Satisfies(output.c, input.v)])

ConstraintNext == parseConstraint \/ satisfies

\* ParseConstraint and Satisfies applied to every constraint text and version
SpecConstraint == ConstraintInit /\ [][ConstraintNext]_vars

(***************************************************************************)
(* Properties of the resolver                                              *)
(***************************************************************************)
\* the pool variants of dep that satisfy the constraint
Compatible(dep, constraint) ==
    {p \in Candidates(dep) : Satisfies(constraint, p.version)}

\* C1: when the loop of resolvePackage examines a dependency whose name is on the
\* active recursion stack, and the pool can satisfy that dependency (a compatible
\* variant exists and a selection already made satisfies the constraint), Resolve
\* fails with CircularDependency and returns no Resolution.
C1_CycleIsRejected ==
    [][(/\ rpc = "resolving"
        /\ frames # <<>>
        /\ depName' # NoName
        /\ OnStack(depName', Top(frames).stack)
        /\ Compatible(depName', Top(frames).pkg.deps[depName']) # {}
        /\ (depName' \in DOMAIN resolved =>
              Satisfies(Top(frames).pkg.deps[depName'], resolved[depName'].version)))
       => (result' = "CircularDependency" /\ resolution' = EmptyMap)]_vars

\* C2: in every Resolution a successful Resolve returns, each dependency declared by
\* the root or by a selected package names a selected package whose version
\* satisfies the declared constraint.
C2_EdgesSatisfied ==
    result = "ok" =>
        \A P \in Range(resolution) \cup {rootPkg} :
            \A n \in DOMAIN P.deps :
                /\ n \in DOMAIN resolution
                /\ Satisfies(P.deps[n], resolution[n].version)

\* a successful resolution with an edge from the root and an edge between packages
C2_Witness ==
    /\ result = "ok"
    /\ rootPkg.deps # EmptyMap
    /\ \E P \in Range(resolution) :
          \E n \in DOMAIN P.deps : n # P.name /\ resolution[n].version = Ver(1, 2, 0)

\* C3: the sequence GetResolutionOrder returns for a Resolution that Resolve returned
\* never places a package before a package it depends on.
C3_OrderIsTopological ==
    rpc = "ordered" =>
        \A i, j \in DOMAIN order :
            (i < j) => order[j].name \notin DOMAIN order[i].deps

\* C4: a dependency on a name not yet resolved selects a pool variant of greatest
\* version among those that satisfy the constraint; an empty candidate list fails
\* with PackageNotFound, candidates none of which satisfies with NoCompatibleVersion.
C4_NewestCompatible ==
    [][(/\ rpc = "resolving"
        /\ frames # <<>>
        /\ depName' # NoName
        /\ depName' \notin DOMAIN resolved)
       => LET constraint == Top(frames).pkg.deps[depName']
              compatible == Compatible(depName', constraint)
          IN  /\ Candidates(depName') = {} => result' = "PackageNotFound"
              /\ (Candidates(depName') # {} /\ compatible = {})
                    => result' = "NoCompatibleVersion"
              /\ compatible # {}
                    => /\ depName' \in DOMAIN resolved'
                       /\ resolved'[depName'] \in compatible
                       /\ \A q \in compatible :
                             Compare(resolved'[depName'].version, q.version) >= 0]_vars

\* a selection made among two compatible variants, the newer one taken
C4_Witness ==
    /\ rpc = "resolving"
    /\ depName # NoName
    /\ depName \in DOMAIN resolved
    /\ resolved[depName].version = Ver(2, 0, 0)
    /\ \E f \in Range(frames) :
          /\ depName \in DOMAIN f.pkg.deps
          /\ Cardinality({p.version : p \in Compatible(depName, f.pkg.deps[depName])}) = 2

\* C5: while Resolve runs, a selection once made is never replaced or dropped; a
\* later dependency on a resolved name keeps the whole map unchanged when the
\* selected version satisfies its constraint and otherwise fails the call with
\* VersionConflict.
C5_FirstResolvedWins ==
    [][rpc = "resolving"
       => /\ \A n \in DOMAIN resolved :
                n \in DOMAIN resolved' /\ resolved'[n] = resolved[n]
          /\ (depName' # NoName /\ depName' \in DOMAIN resolved)
                => IF Satisfies(Top(frames).pkg.deps[depName'], resolved[depName'].version)
                   THEN resolved' = resolved /\ result' = "none"
                   ELSE result' = "VersionConflict" /\ resolution' = EmptyMap]_vars

\* a VersionConflict although another pool variant satisfies every constraint
\* declared on the name
C5_Witness ==
    /\ result = "VersionConflict"
    /\ depName \in DOMAIN resolved
    /\ \E p \in Candidates(depName) :
          /\ p.version # resolved[depName].version
          /\ \A q \in pool \cup {rootPkg} :
                depName \in DOMAIN q.deps => Satisfies(q.deps[depName], p.version)


(***************************************************************************)
(* Properties of the installer and the uninstaller                         *)
(***************************************************************************)
ScopeDirs == {ModulesDir, PackagesDir, GetSharedGlobalPackagesDir}

\* the versions of a package that a scope lists as installed
InstalledVersions(f, scopeDir, name) ==
    {pv[2] : pv \in {x \in listPackagesInDir(f, scopeDir) : x[1] = name}}

\* the install path holds every entry of the archive of name@version
Complete(f, installPath, name, version) ==
    \A k \in DOMAIN EntryNames :
        /\ Stat(f, installPath \o <<EntryNames[k]>>)
        /\ f[Real(f, installPath \o <<EntryNames[k]>>)] = FileNode(Archive(name, version)[k].data)

\* the step is a call of the installer or the uninstaller
Called(op) == nops' = nops + 1 /\ last'.op = op

SameTarget(a, b) ==
    a.op = b.op /\ a.name = b.name /\ a.version = b.version /\ a.global = b.global

\* C6: an install call that repeats the call made just before it, which succeeded,
\* leaves the file system as it is and downloads nothing; this for Install on a
\* Resolution and for InstallPackageByName with and without the global flag.
C6_SecondInstallIsNoOp ==
    [][(/\ Called("Install") \/ Called("InstallPackageByName")
        /\ SameTarget(last, last')
        /\ ~last.err)
       => (fs' = fs /\ last'.dl = 0)]_vars

\* C6, as the code has it: the repeated call leaves the file system as it is and
\* downloads nothing when it is Install on a Resolution or InstallPackageByName
\* without the global flag; with the global flag InstallPackageByName downloads the
\* archive again and, when nothing fails, leaves the file system as it is.
C6_RepeatedInstall ==
    [][(/\ Called("Install") \/ Called("InstallPackageByName")
        /\ SameTarget(last, last')
        /\ ~last.err)
       => IF last'.global
          THEN last'.fault = NoFault => (~last'.err /\ fs' = fs /\ last'.dl = 1)
          ELSE /\ fs' = fs
               /\ last'.dl = 0
               /\ last'.fault = NoFault => ~last'.err]_vars

\* an install call found the package present and returned without a download
C6_Witness ==
    /\ nops >= 2
    /\ last.op \in {"Install", "InstallPackageByName"}
    /\ ~last.global
    /\ ~last.err
    /\ last.dl = 0
    /\ \E d \in {ModulesDir, PackagesDir} : InstalledVersions(fs, d, last.name) # {}

\* Install hands the packages of GetResolutionOrder to installPackage in turn and
\* stops at the first that fails, returning an error that names it
InstallIsFailFastPrefix ==
    rpc \in {"ordered", "installed"} =>
        /\ Len(processed) <= Len(order)
        /\ \A i \in DOMAIN processed :
              /\ processed[i].pkg = order[i]
              /\ processed[i].err =>
                    /\ i = Len(processed)
                    /\ rpc = "installed"
                    /\ last.err
                    /\ last.name = <<processed[i].pkg.name>>
        /\ (rpc = "installed" /\ ~last.err) => Len(processed) = Len(order)

\* no package is handed to installPackage before the packages it depends on
DependenciesProcessedFirst ==
    \A i \in DOMAIN processed :
        \A d \in DOMAIN processed[i].pkg.deps \ {processed[i].pkg.name} :
            \E j \in 1..(i - 1) : processed[j].pkg.name = d

\* C7: Install processes the packages in the sequence of GetResolutionOrder, stops
\* at the first failure with an error naming the failed package, so that the
\* packages processed are a prefix of the order, and never processes a package
\* before the packages it depends on.
C7_InstallInOrderFailFast == InstallIsFailFastPrefix /\ DependenciesProcessedFirst

\* C8: when an Install of a package failed while extracting the archive, the same
\* Install made again without any fault returns success and leaves the install
\* path holding every entry of the archive.
C8_RetryHeals ==
    [][(/\ Called("Install")
        /\ SameTarget(last, last')
        /\ last.err
        /\ last.fault.at \in {"gzip", "copy"}
        /\ last'.fault = NoFault)
       => /\ ~last'.err
          /\ Complete(fs', PackagePath(last'.name, last'.version), last'.name,
                      last'.version)]_vars

\* the scope UninstallPackage is to act on, by the packages installed before the call
TargetScope(f, name, version, global) ==
    IF global THEN GetSharedGlobalPackagesDir
    ELSE IF version = <<>> /\ InstalledVersions(f, ModulesDir, name) # {} THEN ModulesDir
    ELSE IF version # <<>> /\ version \in InstalledVersions(f, ModulesDir, name)
         THEN ModulesDir
    ELSE PackagesDir

\* C9: when UninstallPackage succeeds with an empty version, the targeted scope
\* lists no version of the name any more; when it succeeds with a version, that
\* version was installed in the targeted scope, is no longer, and every other
\* installed version in every scope still is.
C9_UninstallPostcondition ==
    [][(Called("UninstallPackage") /\ ~last'.err)
       => LET name    == last'.name
              version == last'.version
              target  == TargetScope(fs, name, version, last'.global)
          IN  IF version = <<>>
              THEN InstalledVersions(fs', target, name) = {}
              ELSE /\ version \in InstalledVersions(fs, target, name)
                   /\ \A d \in ScopeDirs :
                         InstalledVersions(fs', d, name) =
                            IF d = target
                            THEN InstalledVersions(fs, d, name) \ {version}
                            ELSE InstalledVersions(fs, d, name)]_vars

\* C10: when the name has a single installed version, in the scope the call acts
\* on, and UninstallPackage succeeds with that version or with the empty version,
\* then the version is no longer installed, the directory of the name is gone and
\* no symbolic link of that name is left in the local modules directory.
C10_NoOrphans ==
    [][(/\ Called("UninstallPackage")
        /\ ~last'.err
        /\ \E d \in ScopeDirs, v \in UninstallArgs :
              /\ \A e \in ScopeDirs :
                    InstalledVersions(fs, e, last'.name) = IF e = d THEN {v} ELSE {}
              /\ last'.version \in {<<>>, v}
              /\ last'.global <=> (d = GetSharedGlobalPackagesDir))
       => /\ \A e \in ScopeDirs : InstalledVersions(fs', e, last'.name) = {}
          /\ \A e \in ScopeDirs : ~Lstat(fs', e \o <<last'.name>>)]_vars

\* the directory UninstallPackage is to remove exists in no scope the call may act on
TargetMissing(f, name, version, global) ==
    LET rest == IF version = <<>> THEN <<name>> ELSE <<name, version>>
    IN  IF global THEN ~Stat(f, GetSharedGlobalPackagesDir \o rest)
        ELSE ~Stat(f, ModulesDir \o rest) /\ ~Stat(f, PackagesDir \o rest)

\* C11: when the directory of the targeted name and version (of the name, for an
\* empty version) does not exist, UninstallPackage returns the error "not
\* installed" and leaves the whole file system, scopes, cache and links, as it is.
C11_NotInstalledIsAnError ==
    [][(/\ Called("UninstallPackage")
        /\ TargetMissing(fs, last'.name, last'.version, last'.global))
       => (last'.err /\ last'.kind = "NotInstalled" /\ fs' = fs)]_vars

\* a version that is not installed was named while another version is installed
C11_Witness ==
    /\ last.op = "UninstallPackage"
    /\ last.kind = "NotInstalled"
    /\ last.version # <<>>
    /\ \E d \in ScopeDirs : InstalledVersions(fs, d, last.name) # {}

\* C12: when UninstallFromManifest has returned and the manifest had loaded, the
\* call returned no error, and the removals attempted are one for every name of
\* the dependencies and the dev-dependencies, each with the version the
\* dev-dependencies record for the name if they record one, whether or not earlier
\* removals failed.
C12_ManifestBestEffort ==
    (mpc = "returned" /\ last.kind # "LoadFailed") =>
        /\ ~last.err
        /\ {processed[i].name : i \in DOMAIN processed} =
              DOMAIN manifest.deps \cup DOMAIN manifest.dev
        /\ \A i, j \in DOMAIN processed :
              processed[i].name = processed[j].name => i = j
        /\ \A i \in DOMAIN processed :
              processed[i].version =
                 IF processed[i].name \in DOMAIN manifest.dev
                 THEN manifest.dev[processed[i].name]
                 ELSE manifest.deps[processed[i].name]

\* success was returned although the first removal failed and a second was
\* attempted, for a name recorded with different versions in the two tables
C12_Witness ==
    /\ mpc = "returned"
    /\ ~last.err
    /\ Len(processed) = 2
    /\ processed[1].err
    /\ \E n \in DOMAIN manifest.deps \cap DOMAIN manifest.dev :
          manifest.deps[n] # manifest.dev[n]

\* the recorded version is a range expression of the constraint grammar: a caret,
\* tilde, wildcard, comparison or comma form
IsRangeExpression(version) ==
    \E c \in {"^", "~", "*", "<", ">", ","} : Contains(version, c)

\* C13: for every dependency UninstallFromManifest takes, the removal is that of all
\* versions of the name when the recorded version is a range expression, and that
\* of the single recorded version when it is a plain exact version.
C13_RangeRemovesAllVersions ==
    \A i \in DOMAIN processed :
        processed[i].all <=> IsRangeExpression(processed[i].version)

\* the paths outside the cache directory, with what is at them
OutsideCache(f) == [p \in {q \in DOMAIN f : ~IsPrefix(CacheDir, q)} |-> f[p]]

\* C14: CleanCache on a missing cache directory returns success at once and changes
\* nothing; it never touches a path outside the cache directory; when it returns,
\* it returns success, it has attempted every entry the cache directory had, the
\* entries whose removal did not fail are gone whatever failed before them, and
\* with no failure the cache directory is empty.
C14_CleanCacheBestEffort ==
    [][/\ OutsideCache(fs') = OutsideCache(fs)
       /\ (mpc \in {"idle", "returned"} /\ nops' = nops + 1 /\ ~Stat(fs, CacheDir))
             => (mpc' = "returned" /\ ~last'.err /\ fs' = fs)
       /\ (mpc = "cleaning" /\ mpc' = "returned")
             => /\ ~last'.err
                /\ ReadDir(fs', CacheDir) =
                      {processed[i].name : i \in {j \in DOMAIN processed : processed[j].err}}
                /\ \A i, j \in DOMAIN processed :
                      processed[i].name = processed[j].name => i = j
       /\ (mpc \in {"idle", "returned"} /\ mpc' = "cleaning")
             => pending' = ReadDir(fs, CacheDir)
       /\ (mpc = "cleaning" /\ mpc' = "cleaning" /\ pending' # pending)
             => \E e \in pending : pending' = pending \ {e}]_vars

\* CleanCache returned after a removal that failed and a later one that succeeded
C14_Witness ==
    /\ mpc = "returned"
    /\ last.op = "CleanCache"
    /\ ~last.err
    /\ Len(processed) = 2
    /\ processed[1].err
    /\ ~processed[2].err
    /\ Cardinality(ReadDir(fs, CacheDir)) = 1

\* the version the registry resolves the version argument of a call to
ResolvedVersion(call) ==
    IF call.version = <<>> THEN LatestVersion(call.name) ELSE call.version

\* the version by which the call names its archive and its temporary directory
StagedVersion(call) ==
    LET version == IF call.version = <<>> THEN LatestText ELSE call.version
    IN  IF call.op = "InstallPackageByName" /\ call.global
        THEN VersionString(NamedPackage(GetPackageInfo(call.name, version), version).version)
        ELSE ResolvedVersion(call)

\* the archive and the temporary extraction directory of name@version in the cache
StagedFor(f, name, version) ==
    ReadDir(f, CacheDir) \cap
        {ArchiveName(name, version), name \o <<"-">> \o version \o TempSuffix}

Extractable(entries) ==
    SelectSeq(entries, LAMBDA h : h.typeflag \in {"dir", "reg"})

\* C16: after a successful extraction the file of each regular-file entry holds
\* exactly the bytes of the entry (of the last such entry of that name), a longer
\* file that was there before included; entries that are neither directories nor
\* regular files are skipped without error, the outcome being that of the stream
\* without them.
C16_ExtractedContent ==
    [][(output = NoOutput /\ output'.fn = "extractTarGz" /\ ~output'.err)
       => /\ \A k \in DOMAIN input.entries :
                LET h == input.entries[k]
                    target == Join(input.destDir, h.name)
                IN  (/\ h.typeflag = "reg"
                     /\ \A j \in DOMAIN input.entries :
                           j > k => ~IsPrefix(target, Join(input.destDir, input.entries[j].name)))
                    => /\ Stat(fs', target)
                       /\ fs'[Real(fs', target)] = FileNode(h.data)
          /\ output'.fault = NoFault
                => LET ret == extractEntries(fs, Extractable(input.entries), 1,
                                             input.destDir, NoFault)
                   IN  ~ret.err /\ ret.f = fs']_vars

\* C17: after InstallPackageByName returns success, in either scope, the scope
\* holds the package under the directory named by the version the registry
\* resolved for the version argument (its latest for an empty argument), and the
\* call has put the package under no other version directory.
C17_UnderResolvedVersion ==
    [][(Called("InstallPackageByName") /\ ~last'.err)
       => LET scope == IF last'.global THEN GetSharedGlobalPackagesDir ELSE ModulesDir
              v     == ResolvedVersion(last')
          IN  /\ v \in InstalledVersions(fs', scope, last'.name)
              /\ \A d \in ScopeDirs :
                    InstalledVersions(fs', d, last'.name)
                        \subseteq InstalledVersions(fs, d, last'.name) \cup {v}]_vars

\* a is the lower version: lower in the first component that differs, in the
\* order major, minor, patch
Precedes(a, b) ==
    \/ a.major < b.major
    \/ a.major = b.major /\ a.minor < b.minor
    \/ a.major = b.major /\ a.minor = b.minor /\ a.patch < b.patch

\* C18, as the spec words it: Compare(a, b) is exactly -1, 0 or +1, the sign of
\* the first differing component in the order major, minor, patch, and 0 when
\* the three components are equal.
C18_CompareIsMinusOneZeroOne ==
    output.fn = "Compare"
        => output.n = IF Precedes(input.v, input.other) THEN -1
                      ELSE IF Precedes(input.other, input.v) THEN 1
                      ELSE 0

\* C18, as the code has it: Compare(a, b) is an int whose sign is that of the
\* first differing component in the order major, minor, patch (negative for
\* a < b, positive for a > b), and 0 exactly when the three components are equal.
C18_CompareSign ==
    output.fn = "Compare"
        => /\ (output.n < 0) <=> Precedes(input.v, input.other)
           /\ (output.n > 0) <=> Precedes(input.other, input.v)
           /\ (output.n = 0) <=> (input.v = input.other)

\* Compare returned a number that is neither -1, 0 nor 1, on versions whose major
\* components are equal
C18_Witness ==
    /\ output.fn = "Compare"
    /\ input.v.major = input.other.major
    /\ output.n \notin {-1, 0, 1}

\* the text is a number: one decimal digit or more
IsNumber(t) == t # <<>> /\ \A i \in DOMAIN t : t[i] \in Range(Digits)

\* the text is three numbers separated by dots; at i and j are the dots
DotsAt(t, i, j) ==
    /\ i < j
    /\ t[i] = "." /\ t[j] = "."
    /\ IsNumber(SubSeq(t, 1, i - 1))
    /\ IsNumber(SubSeq(t, i + 1, j - 1))
    /\ IsNumber(SubSeq(t, j + 1, Len(t)))

ThreeNumbers(t) == \E i, j \in DOMAIN t : DotsAt(t, i, j)

\* the version whose components are the three numbers of the text, each at most lim
Denoted(t, lim) ==
    LET ij == CHOOSE ij \in (DOMAIN t) \X (DOMAIN t) : DotsAt(t, ij[1], ij[2])
        num(a, b) == LET n == Decimal(SubSeq(t, a, b)) IN IF n > lim THEN lim ELSE n
    IN  Ver(num(1, ij[1] - 1), num(ij[1] + 1, ij[2] - 1), num(ij[2] + 1, Len(t)))

\* beyond every number a text of MaxText characters denotes
NoLimit == 10 * 10 * 10 * 10 * 10 * 10 * 10 * 10

\* the text without its first character when that is no digit
Unprefixed(t) == IF t # <<>> /\ t[1] \notin Range(Digits) THEN Tail(t) ELSE t

\* C19, as the spec words it: Parse accepts exactly the texts made of an optional
\* single non-numeric prefix character followed by three dot-separated
\* non-negative integers, and returns those three components; every other text
\* fails with InvalidFormat.
C19_ParseAcceptsAnyPrefix ==
    output.fn = "Parse"
        => IF ThreeNumbers(Unprefixed(input.v))
           THEN ~output.err /\ output.v = Denoted(Unprefixed(input.v), NoLimit)
           ELSE output.err

\* C19, as the code has it: Parse accepts exactly the texts made of an optional
\* "v" followed by three dot-separated runs of decimal digits; it returns the
\* three numbers, a number beyond the largest int as the largest int; every
\* other text, one with another prefix character included, fails with
\* InvalidFormat.
C19_ParseAcceptsV ==
    output.fn = "Parse"
        => LET body == IF input.v # <<>> /\ input.v[1] = "v" THEN Tail(input.v) ELSE input.v
           IN  IF ThreeNumbers(body)
               THEN ~output.err /\ output.v = Denoted(body, MaxInt)
               ELSE output.err

\* Parse rejected three numbers that follow a one-character prefix other than "v"
C19_Witness ==
    /\ output.fn = "Parse"
    /\ output.err
    /\ input.v # <<>>
    /\ input.v[1] = "x"
    /\ ThreeNumbers(Tail(input.v))

\* C20: for every text that Parse accepts, String of the version it returns is
\* the text with the optional one-character prefix removed; this for components
\* with leading zeros and for very large components too.
C20_RoundTrip ==
    output.fn = "String" => output.text = Unprefixed(input.v)

\* a is b or a lower version
AtMost(a, b) == a = b \/ Precedes(a, b)

\* the text is the mark followed by the canonical text of a version
MarkedVersion(t, mark) ==
    /\ HasPrefix(t, mark)
    /\ ThreeNumbers(Drop(t, Len(mark)))
    /\ VersionString(Denoted(Drop(t, Len(mark)), MaxInt)) = Drop(t, Len(mark))

\* C21: for every version v, ParseConstraint("^" + v) succeeds, and a version w
\* satisfies what it returns exactly when v <= w < (v.major+1).0.0 in the order
\* of versions.
C21_Caret ==
    MarkedVersion(input.s, <<"^">>)
        => LET v == Denoted(Tail(input.s), MaxInt)
               w == input.v
           IN  /\ output.fn = "ParseConstraint" => ~output.err
               /\ output.fn = "Satisfies"
                    => (output.ok <=> (AtMost(v, w) /\ w.major < v.major + 1))

\* ^v for a v whose major component is the largest int was asked about a version
\* inside the range
C21_Witness ==
    /\ MarkedVersion(input.s, <<"^">>)
    /\ Denoted(Tail(input.s), MaxInt).major = MaxInt
    /\ output.fn = "Satisfies"
    /\ output.ok
    /\ input.v # Denoted(Tail(input.s), MaxInt)

\* C22: for every version v, ParseConstraint("~" + v) succeeds, and a version w
\* satisfies what it returns exactly when v <= w < v.major.(v.minor+1).0 in the
\* order of versions.
C22_Tilde ==
    MarkedVersion(input.s, <<"~">>)
        => LET v == Denoted(Tail(input.s), MaxInt)
               w == input.v
           IN  /\ output.fn = "ParseConstraint" => ~output.err
               /\ output.fn = "Satisfies"
                    => (output.ok <=> /\ AtMost(v, w)
                                      /\ \/ w.major < v.major
                                         \/ w.major = v.major /\ w.minor < v.minor + 1)

\* ~v for a v whose minor component is the largest int was asked about a version
\* inside the range
C22_Witness ==
    /\ MarkedVersion(input.s, <<"~">>)
    /\ Denoted(Tail(input.s), MaxInt).minor = MaxInt
    /\ output.fn = "Satisfies"
    /\ output.ok
    /\ input.v # Denoted(Tail(input.s), MaxInt)

\* the range that has v as its only bound, as the operator says
OneSided(c, op, v) ==
    /\ c.kind = "range"
    /\ op \in {<<">", "=">>, <<">">>}
          => c.min = v /\ c.max = Nil /\ (c.minInclusive <=> op = <<">", "=">>)
    /\ op \in {<<"<", "=">>, <<"<">>}
          => c.max = v /\ c.min = Nil /\ (c.maxInclusive <=> op = <<"<", "=">>)

\* C23: for each operator op of >=, >, <=, < and every valid version v,
\* ParseConstraint(op + v) succeeds and yields a one-sided Range whose only bound
\* is v, inclusive for >= and <=, exclusive for > and <.
C23_SingleComparison ==
    \A op \in {<<">", "=">>, <<">">>, <<"<", "=">>, <<"<">>} :
        (output.fn = "ParseConstraint" /\ MarkedVersion(input.s, op))
            => /\ ~output.err
               /\ OneSided(output.c, op, Denoted(Drop(input.s, Len(op)), MaxInt))

\* the positions of the commas of a text
Commas(t) == {i \in DOMAIN t : t[i] = ","}

\* the clause is one of >=, >, <=, < followed by three numbers
ComparisonClause(cl) ==
    \E op \in {<<">", "=">>, <<">">>, <<"<", "=">>, <<"<">>} :
        /\ HasPrefix(cl, op)
        /\ LET t == Drop(cl, Len(op))
           IN  ThreeNumbers(IF HasPrefix(t, <<"v">>) THEN Tail(t) ELSE t)

\* C24: ParseConstraint on a text with a comma succeeds only if the text splits
\* into exactly two clauses and each clause is one of >=, >, <=, < followed by a
\* valid version; any other clause and any other number of clauses fails.
C24_CommaIsStrict ==
    (output.fn = "ParseConstraint" /\ Commas(input.s) # {} /\ ~output.err)
        => /\ Cardinality(Commas(input.s)) = 1
           /\ LET i == CHOOSE i \in Commas(input.s) : TRUE
              IN  /\ ComparisonClause(TrimSpace(SubSeq(input.s, 1, i - 1)))
                  /\ ComparisonClause(TrimSpace(SubSeq(input.s, i + 1, Len(input.s))))

\* the symbolic link of the package in the project
LinkPath(name) == LocalModulesPath \o <<name>>

\* C25: after a successful uninstall of a version of a package, in any scope,
\* while the local symbolic link of that name points at another user-scope
\* version, which is still installed, the link is still there and unchanged.
C25_LinkToAnotherVersionStays ==
    [][(/\ Called("UninstallPackage")
        /\ ~last'.err
        /\ last'.version # <<>>
        /\ isSymlink(fs, LinkPath(last'.name))
        /\ Stat(fs', fs[LinkPath(last'.name)].target))
       => /\ LinkPath(last'.name) \in DOMAIN fs'
          /\ fs'[LinkPath(last'.name)] = fs[LinkPath(last'.name)]]_vars

\* C26: invocations side by side are not coordinated. An install returns success
\* over an install path that is absent or partly filled only when it ran beside
\* another invocation, and there are interleavings in which this happens: an
\* uninstall removes what the install has extracted, and two installs both pass
\* the presence check and both extract into the one path.
C26_OnlyARaceBreaksInstall ==
    \A p \in DOMAIN procs :
        (/\ p \in Installers
         /\ procs[p].pc = "returned"
         /\ ~procs[p].err
         /\ procs[p].atReturn # "complete")
            => procs[p].beside

\* both installs passed the presence check and both extracted into the install
\* path, and one of them returned success over an install path that was absent
C26_Witness ==
    /\ procs # NoProcs
    /\ \A p \in Installers : procs[p].passed /\ procs[p].extracted
    /\ \E p \in Installers :
          procs[p].pc = "returned" /\ ~procs[p].err /\ procs[p].atReturn = "absent"

\* no two variants of the pool carry the same name and version, so that the
\* sort of the candidates has one result
DistinctVariants ==
    \A p, q \in pool : (p.name = q.name /\ p.version = q.version) => p = q

RECURSIVE Outcomes(_, _, _)

\* what Resolve can return from the point where the map is res and the active
\* calls of resolvePackage are frs, over every order in which the loops over
\* pkg.Dependencies take the names
Outcomes(root, res, frs) ==
    IF frs = <<>>
    THEN {[result |-> "ok", resolution |-> [n \in DOMAIN res \ {root} |-> res[n]]]}
    ELSE LET f == Top(frs)
         IN  IF f.todo = {}
             THEN Outcomes(root, res, Pop(frs))
             ELSE UNION {
                    LET constraint == f.pkg.deps[dep]
                        rest       == [frs EXCEPT ![Len(frs)].todo = f.todo \ {dep}]
                        failed(kind) == {[result |-> kind, resolution |-> EmptyMap]}
                    IN  IF AlreadyResolved(res, dep)
                        THEN IF Conflicts(constraint, res[dep])
                             THEN failed("VersionConflict")
                             ELSE Outcomes(root, res, rest)
                        ELSE IF Candidates(dep) = {}
                             THEN failed("PackageNotFound")
                             ELSE UNION {
                                    LET k == FirstCompatible(sorted, constraint)
                                    IN  IF k = 0
                                        THEN failed("NoCompatibleVersion")
                                        ELSE IF OnStack(sorted[k].name, f.stack)
                                             THEN failed("CircularDependency")
                                             ELSE Outcomes(root,
                                                           (dep :> sorted[k]) @@ res,
                                                           Append(rest, Frame(sorted[k], f.stack)))
                                    : sorted \in SortSlice(Candidates(dep))}
                    : dep \in f.todo}

\* C27: for a fixed pool and fixed root dependencies every order in which the
\* dependencies of a package are visited yields the same outcome: what Resolve
\* returned (the error kind, or the assignment of versions to names) is the only
\* outcome that the pool and the root admit.
C27_OrderIndependent ==
    (rpc = "resolved" /\ rootPkg # NoPackage /\ DistinctVariants)
        => Outcomes(rootPkg.name, EmptyMap, <<Frame(rootPkg, <<>>)>>)
              = {[result |-> result, resolution |-> resolution]}

\* C28: every Resolution a successful Resolve returns is closed under dependencies
\* and excludes the root: each name the root or a selected package depends on is a
\* key, each key maps to a variant of the pool that carries that name, and the
\* root's own name is not a key.
C28_ClosedWithoutRoot ==
    (rpc = "resolved" /\ result = "ok") =>
        /\ \A P \in Range(resolution) \cup {rootPkg} : DOMAIN P.deps \subseteq DOMAIN resolution
        /\ \A n \in DOMAIN resolution : resolution[n] \in pool /\ resolution[n].name = n
        /\ rootPkg.name \notin DOMAIN resolution

\* a successful Resolve for a root whose name the pool holds too, with a selected
\* package that has a dependency of its own
C28_Witness ==
    /\ rpc = "resolved"
    /\ result = "ok"
    /\ \E p \in pool : p.name = rootPkg.name
    /\ \E P \in Range(resolution) : P.deps # EmptyMap

\* C29: Resolve terminates on every pool and every root dependency set, pools with
\* dependency cycles and self-dependencies included: a running Resolve always comes
\* to return, with a Resolution or with an error.
C29_ResolveTerminates ==
    (rpc = "resolving") ~> (rpc = "resolved" /\ result # "none")

\* Resolve has returned for a pool in which a selected package depends on itself
\* or two selected packages depend on each other
C29_Witness ==
    /\ rpc = "resolved"
    /\ result # "none"
    /\ \E P, Q \in pool :
          /\ Q.name \in DOMAIN P.deps
          /\ P.name \in DOMAIN Q.deps
          /\ P.name \in DOMAIN resolved

\* C30: extraction is confined to its destination: for every stream, entry names
\* with parent-directory elements and absolute entry names included, every
\* directory and file that extractTarGz creates or changes lies inside destDir.
C30_ExtractionIsConfined ==
    [][(output = NoOutput /\ output'.fn = "extractTarGz")
       => \A p \in DOMAIN fs' :
             (p \notin DOMAIN fs \/ fs'[p] # fs[p]) => IsPrefix(input.destDir, p)]_vars

====
